---- MODULE Spec2Model ----
(***************************************************************************)
(* A model of the trade-journal core of ragbot-starter: the note           *)
(* interpretation handler (POST /api/trades), the record edit handler      *)
(* (PUT /api/trades/[tradeId]), the merge helpers, the in-memory store     *)
(* with its keyword search, and the analytics.                             *)
(*                                                                         *)
(* Strings that the code trims or scans are sequences of tokens (words and *)
(* the whitespace token " "); identifiers and enum values are strings;     *)
(* timestamps are integers; a nullable timestamp or number is <<>> (null)   *)
(* or <<v>>; prices, sizes and pnl read from a note are in hundredths.     *)
(***************************************************************************)
EXTENDS Integers, Sequences, FiniteSets, TLC

VARIABLES
  backend,    \* "memory" when getTradeCollection() yields null, else "collection"
  apiKey,     \* whether process.env.OPENAI_API_KEY is set
  trades,     \* store.trades, or the documents of the collection, in order
  clock,      \* the wall clock read by new Date()
  uuid,       \* how many ids crypto.randomUUID() has produced
  served,     \* how many requests the server has accepted
  reqs,       \* the POST requests in flight, one per slot
  putResult,  \* the outcome of the last PUT and of its embedding call
  call,       \* the library function called directly, with its arguments
  returned,   \* what that call returned
  objects,    \* the JavaScript heap: the value of every allocated record
  memory,     \* store.trades as references into the heap, in order
  handles     \* the references a caller of the store holds

libVars == <<call, returned, objects, memory, handles>>

vars == <<backend, apiKey, trades, clock, uuid, served, reqs, putResult,
          call, returned, objects, memory, handles>>

-----------------------------------------------------------------------------
(* Bounds of the model *)

MaxTime == 2
MaxRequests == 2

(* undefined / null of a string-valued field, and of a timestamp *)
Undefined == "undefined"
NullStr == "null"
Null == <<>>

IsNullish(v) == v = Undefined \/ v = NullStr

\* the JavaScript ?? operator, on a string-valued field and on a nullable
\* timestamp or number
Coalesce(a, b) == IF IsNullish(a) THEN b ELSE a

CoalesceTime(a, b) == IF a = Null THEN b ELSE a

-----------------------------------------------------------------------------
(* Strings as token sequences *)

WS == " "

RECURSIVE TrimStart(_)
TrimStart(s) ==
  IF s # <<>> /\ Head(s) = WS THEN TrimStart(Tail(s)) ELSE s

RECURSIVE TrimEnd(_)
TrimEnd(s) ==
  IF s # <<>> /\ s[Len(s)] = WS THEN TrimEnd(SubSeq(s, 1, Len(s) - 1)) ELSE s

\* String.prototype.trim
Trim(s) == TrimEnd(TrimStart(s))

\* the words of a token sequence, whitespace dropped
NotSpace(w) == w # WS

Words(s) == SelectSeq(s, NotSpace)

ToUpperCase(w) ==
  CASE w = "holding" -> "HOLDING"
    [] w = "trimmed" -> "TRIMMED"
    [] w = "sold" -> "SOLD"
    [] w = "aapl" -> "AAPL"
    [] w = "tsla" -> "TSLA"
    [] w = "$tsla" -> "$TSLA"
    [] w \in {"closed", "Closed"} -> "CLOSED"
    [] w \in {"bought", "Bought"} -> "BOUGHT"
    [] w = "for" -> "FOR"
    [] w = "profit" -> "PROFIT"
    [] w = "felt" -> "FELT"
    [] w = "confident" -> "CONFIDENT"
    [] w = "calls" -> "CALLS"
    [] OTHER -> w

ToLowerCase(w) ==
  CASE w = "AAPL" -> "aapl"
    [] w = "TSLA" -> "tsla"
    [] w = "SOLD" -> "sold"
    [] w = "CLOSED" -> "closed"
    [] w = "OPEN" -> "open"
    [] w = "Closed" -> "closed"
    [] w = "Bought" -> "bought"
    [] OTHER -> w

-----------------------------------------------------------------------------
(* lib/trade-helpers *)

\* String.prototype.trim on a string kept as one atom
TrimAtom(w) ==
  CASE w = " " -> ""
    [] w = " tsla " -> "tsla"
    [] OTHER -> w

sanitizeTicker(value) ==
  IF IsNullish(value) \/ value = "" THEN "UNKNOWN" ELSE ToUpperCase(TrimAtom(value))

tradeTypes == {"long", "short", "call", "put"}

sanitizeTradeType(value) ==
  IF IsNullish(value) \/ value = "" THEN "long"
  ELSE IF ToLowerCase(value) \in tradeTypes THEN ToLowerCase(value) ELSE "long"

sanitizeStatus(value) ==
  IF IsNullish(value) \/ value = "" THEN "open"
  ELSE IF ToLowerCase(value) = "closed" THEN "closed" ELSE "open"

randomUUID(n) == "u" \o ToString(n)

createNote(text, n, now) == [id |-> randomUUID(n), text |-> text, createdAt |-> now]

\* attachments.map(a => ({...a, id: a.id ?? randomUUID()})); n ids were produced
\* before the call; the result is <<the list, the ids produced after it>>
RECURSIVE normalizeAttachments(_, _)
normalizeAttachments(attachments, n) ==
  IF attachments = <<>> THEN <<(<<>>), n>>
  ELSE LET a == Head(attachments)
           fresh == IsNullish(a.id)
           n1 == IF fresh THEN n + 1 ELSE n
           a1 == IF fresh THEN [a EXCEPT !.id = randomUUID(n1)] ELSE a
           rest == normalizeAttachments(Tail(attachments), n1)
       IN <<(<<a1>> \o rest[1]), rest[2]>>

NoteIds(notes) == {notes[i].id : i \in 1..Len(notes)}

\* Array.prototype.sort with (a, b) => a.createdAt - b.createdAt: stable
RECURSIVE InsertByCreatedAt(_, _)
InsertByCreatedAt(sorted, note) ==
  IF sorted = <<>> THEN <<note>>
  ELSE IF Head(sorted).createdAt <= note.createdAt
       THEN <<Head(sorted)>> \o InsertByCreatedAt(Tail(sorted), note)
       ELSE <<note>> \o sorted

RECURSIVE SortByCreatedAt(_)
SortByCreatedAt(notes) ==
  IF notes = <<>> THEN <<>>
  ELSE InsertByCreatedAt(SortByCreatedAt(SubSeq(notes, 1, Len(notes) - 1)),
                         notes[Len(notes)])

\* a push of every incoming note, known or not
PushAll(merged, incoming) == merged \o incoming

RECURSIVE PushNew(_, _)
PushNew(merged, incoming) ==
  IF incoming = <<>> THEN merged
  ELSE IF Head(incoming).id \in NoteIds(merged)
       THEN PushNew(merged, Tail(incoming))
       ELSE PushNew(Append(merged, Head(incoming)), Tail(incoming))

mergeNotes(existing, incoming) ==
  IF incoming = <<>> THEN existing
  ELSE SortByCreatedAt(PushNew(existing, incoming))

\* a set that adds an entry whether or not the id is present
MapAppend(map, attachment) == Append(map, attachment)

\* Map.prototype.set on a map kept as the sequence of its values in
\* insertion order: an id already present keeps its place
MapSet(map, attachment) ==
  IF \E i \in 1..Len(map) : map[i].id = attachment.id
  THEN [i \in 1..Len(map) |->
          IF map[i].id = attachment.id THEN attachment ELSE map[i]]
  ELSE Append(map, attachment)

RECURSIVE MapSetAll(_, _)
MapSetAll(map, attachments) ==
  IF attachments = <<>> THEN map
  ELSE MapSetAll(MapSet(map, Head(attachments)), Tail(attachments))

mergeAttachments(existing, incoming) ==
  IF incoming = <<>> THEN existing
  ELSE MapSetAll(MapSetAll(<<>>, existing), incoming)

-----------------------------------------------------------------------------
(* lib/memory-trade-store *)

Take(s, n) == SubSeq(s, 1, IF Len(s) < n THEN Len(s) ELSE n)

\* a lookup that settles for the first record when no id matches
getTradeByIdOrFirst(store, tradeId) ==
  LET Match(t) == t.trade_id = tradeId
  IN IF SelectSeq(store, Match) # <<>> THEN Take(SelectSeq(store, Match), 1)
     ELSE Take(store, 1)

\* the clone of the match as <<trade>>, or <<>> for null
getTradeById(store, tradeId) ==
  LET Match(t) == t.trade_id = tradeId IN Take(SelectSeq(store, Match), 1)

\* an upsert that puts the record in front and removes none
prependTrade(store, trade) == <<trade>> \o store

upsertTrade(store, trade) ==
  LET Other(t) == t.trade_id # trade.trade_id
  IN <<trade>> \o SelectSeq(store, Other)

\* sortTrades with sortBy 'updatedAt', direction 'desc': stable
RECURSIVE InsertByUpdatedDesc(_, _)
InsertByUpdatedDesc(sorted, t) ==
  IF sorted = <<>> THEN <<t>>
  ELSE IF Head(sorted).updatedAt >= t.updatedAt
       THEN <<Head(sorted)>> \o InsertByUpdatedDesc(Tail(sorted), t)
       ELSE <<t>> \o sorted

RECURSIVE SortByUpdatedDesc(_)
SortByUpdatedDesc(s) ==
  IF s = <<>> THEN <<>>
  ELSE InsertByUpdatedDesc(SortByUpdatedDesc(SubSeq(s, 1, Len(s) - 1)), s[Len(s)])

IsOpen(t) == t.status = "open"

\* listTrades({status: 'open'}, {limit, sortBy: 'updatedAt', direction: 'desc'})
listOpenTrades(store, limit) ==
  Take(SortByUpdatedDesc(SelectSeq(store, IsOpen)), limit)

-----------------------------------------------------------------------------
(* app/api/trades/route: the heuristic extractor *)

OpenTradesLimit == 12

FALLBACK_TICKER_EXCLUSIONS ==
  {"LONG", "SHORT", "CALL", "PUT", "CALLS", "PUTS", "OPEN", "CLOSE", "CLOSED",
   "ENTRY", "EXIT", "STOP", "LOSS", "GAIN", "TARGET", "PNL", "USD", "SHARES",
   "TRADE", "NOTE"}

\* the words and two-word phrases of FALLBACK_UPDATE_HINT, lower case
UpdateHintWords ==
  {"update", "holding", "trim", "trimmed", "trimming", "scaled", "scaling",
   "reduce", "adding"}

UpdateHintPhrases == {<<"add", "note">>, <<"still", "in">>}

\* the words and phrases of the regular expression of detectStatusFromNote
ClosingWords ==
  {"close", "closed", "exit", "exited", "trimmed", "stopped", "tp", "sold"}

ClosingPhrases == {<<"stopped", "out">>, <<"took", "profit">>}

LowerAll(ws) == [i \in 1..Len(ws) |-> ToLowerCase(ws[i])]

LowerWords(note) == LowerAll(Words(note))

\* whether one of the words, or one of the phrases, is among the lower-cased
\* words of a note
AnyOf(ws, words, phrases) ==
  \/ \E i \in 1..Len(ws) : ws[i] \in words
  \/ \E i \in 1..(Len(ws) - 1) : <<ws[i], ws[i + 1]>> \in phrases

\* a case-insensitive test of \b(word|phrase|...)\b against the note
MatchesAny(note, words, phrases) == AnyOf(LowerWords(note), words, phrases)

FALLBACK_UPDATE_HINT(note) == MatchesAny(note, UpdateHintWords, UpdateHintPhrases)

\* the capture of /\$([A-Za-z]{1,5})\b/ in one word, or Undefined
DollarSymbol(w) ==
  CASE w = "$tsla" -> "tsla"
    [] w = "$TSLA" -> "TSLA"
    [] OTHER -> Undefined

\* whether an upper-cased word is a match of /\b[A-Z]{2,5}\b/
IsUpper2to5(w) ==
  w \in {"AAPL", "TSLA", "SOLD", "FOR", "FELT"} \/ (w \in FALLBACK_TICKER_EXCLUSIONS \ {"CLOSED", "TARGET", "SHARES"})

\* the first entry of a list of matches that is one, or Undefined
RECURSIVE FirstMatch(_)
FirstMatch(matches) ==
  IF matches = <<>> THEN Undefined
  ELSE IF Head(matches) # Undefined THEN Head(matches)
  ELSE FirstMatch(Tail(matches))

detectTickerFromNote(note) ==
  LET Symbol(w) == IF DollarSymbol(w) = Undefined THEN Undefined
                   ELSE ToUpperCase(DollarSymbol(w))
      Candidate(w) == IF IsUpper2to5(ToUpperCase(w))
                         /\ ToUpperCase(w) \notin FALLBACK_TICKER_EXCLUSIONS
                      THEN ToUpperCase(w) ELSE Undefined
      words == Words(note)
      symbolMatch == FirstMatch([i \in 1..Len(words) |-> Symbol(words[i])])
  IN IF symbolMatch # Undefined THEN symbolMatch
     ELSE FirstMatch([i \in 1..Len(words) |-> Candidate(words[i])])

detectStatusFromNote(note) ==
  IF MatchesAny(note, ClosingWords, ClosingPhrases) THEN "closed" ELSE "open"

\* a draft: the fields of TradeExtraction that the modelled record carries
Draft(action, target, tradeId, ticker, exitPrice, status, closedAt, reasoning) ==
  [action |-> action, target_trade_id |-> target,
   trade |-> [trade_id |-> tradeId, ticker |-> ticker, trade_type |-> Undefined,
              size |-> Null, entry_price |-> Null, exit_price |-> exitPrice,
              pnl_usd |-> Null, sentiment |-> Undefined,
              status |-> status, closed_at |-> closedAt],
   reasoning |-> reasoning]

\* Numbers are kept in hundredths. Number.parseFloat of the digits one token
\* holds, as /-?\d+(?:\.\d+)?/ captures them from the token's first digit on;
\* Null for a token without a digit
parseFloat(w) ==
  CASE w = "100" -> <<10000>>
    [] w \in {"350", "$350"} -> <<35000>>
    [] w = "5.20" -> <<520>>
    [] OTHER -> Null

\* whether a token holds a digit, a dollar sign, a letter
HasDigit(w) == parseFloat(w) # Null

HasDollar(w) == w \in {"$350", "$tsla", "$TSLA"}

HasLetter(w) == ~HasDigit(w) /\ w \notin {WS, ",", "@"}

\* the keywords of the number patterns that occur inside a word; the patterns
\* are case-insensitive and ask for no word boundary, so 'calls' holds 'call'
\* and 'closed' holds 'close'
Stems(w) ==
  LET lower == ToLowerCase(w)
  IN CASE lower = "bought" -> {"bought"}
       [] lower = "calls" -> {"call"}
       [] lower = "closed" -> {"close"}
       [] lower = "trimmed" -> {"trim"}
       [] lower = "sold" -> {"sold"}
       [] lower = "profit" -> {"profit"}
       [] lower = "@" -> {"@"}
       [] OTHER -> {}

\* the three shapes of the patterns handed to extractNumberFromNote:
\*   keyword, gap, number       /(?:k1|k2)[^$0-9-]*\$?\s*(-?\d+(?:\.\d+)?)/
\*   number, spaces, unit       /(\d+(?:\.\d+)?)\s*(?:u1|u2)/
\*   $number, gap, keyword      /\$(-?\d+(?:\.\d+)?)[^%a-zA-Z]*\b(?:k1|k2)/
\* gap is "no_digit" for [^0-9-]*, "no_dollar" for [^$0-9-]* and "space" for
\* \s*; dollar tells whether the number may carry a dollar sign
KeyNumber(keys, gap, dollar) ==
  [shape |-> "key_number", keys |-> keys, gap |-> gap, dollar |-> dollar]

NumberUnit(units) ==
  [shape |-> "number_unit", keys |-> units, gap |-> "space", dollar |-> TRUE]

DollarNumberKey(keys) ==
  [shape |-> "dollar_number_key", keys |-> keys, gap |-> "no_letter", dollar |-> TRUE]

\* whether the gap of a pattern can run over a token
Passes(gap, w) ==
  CASE gap = "no_digit" -> ~HasDigit(w)
    [] gap = "no_dollar" -> ~HasDigit(w) /\ ~HasDollar(w)
    [] gap = "no_letter" -> ~HasLetter(w)
    [] OTHER -> w = WS

\* the first token after position i that the gap cannot run over, 0 if none
GapEnd(note, gap, i) ==
  LET stops == {j \in (i + 1)..Len(note) : ~Passes(gap, note[j])}
  IN IF stops = {} THEN 0 ELSE CHOOSE j \in stops : \A k \in stops : j <= k

\* whether the pattern matches from token i, end being the token that stops
\* its gap
Hit(note, pattern, i, end) ==
  CASE pattern.shape = "key_number" ->
         /\ Stems(note[i]) \cap pattern.keys # {}
         /\ end # 0
         /\ HasDigit(note[end])
         /\ pattern.dollar \/ ~HasDollar(note[end])
    [] pattern.shape = "number_unit" ->
         /\ HasDigit(note[i])
         /\ end # 0
         /\ ToLowerCase(note[end]) \in pattern.keys
    [] OTHER ->
         /\ HasDigit(note[i]) /\ HasDollar(note[i])
         /\ end # 0
         /\ ToLowerCase(note[end]) \in pattern.keys

\* match[1] of the match that starts at token first
Capture(note, pattern, first) ==
  IF pattern.shape = "key_number"
  THEN parseFloat(note[GapEnd(note, pattern.gap, first)])
  ELSE parseFloat(note[first])

Leftmost(hits) == CHOOSE i \in hits : \A k \in hits : i <= k

FirstHit(note, pattern, hits) ==
  IF hits = {} THEN Null ELSE Capture(note, pattern, Leftmost(hits))

\* note.match(pattern): the captured number of the leftmost match, or Null
MatchNumber(note, pattern) ==
  FirstHit(note, pattern,
           {i \in 1..Len(note) : Hit(note, pattern, i, GapEnd(note, pattern.gap, i))})

RECURSIVE FirstNumber(_)
FirstNumber(matches) ==
  IF matches = <<>> THEN Null
  ELSE IF Head(matches) # Null THEN Head(matches)
  ELSE FirstNumber(Tail(matches))

\* the first pattern that matches gives the number; every pattern captures
\* \d+, so a note without a digit matches none
extractNumberFromNote(note, patterns) ==
  IF \A i \in 1..Len(note) : ~HasDigit(note[i]) THEN Null
  ELSE FirstNumber([k \in 1..Len(patterns) |-> MatchNumber(note, patterns[k])])

EntryPricePatterns ==
  <<KeyNumber({"entry"}, "no_digit", TRUE),
    KeyNumber({"bought", "buy", "added", "long", "call"}, "no_dollar", TRUE),
    KeyNumber({"@"}, "space", TRUE)>>

ExitPricePatterns ==
  <<KeyNumber({"exit"}, "no_digit", TRUE),
    KeyNumber({"sold", "close", "trim", "tp", "target"}, "no_dollar", TRUE),
    KeyNumber({"stop"}, "no_dollar", TRUE)>>

SizePatterns ==
  <<NumberUnit({"shares", "contracts", "lots"}),
    KeyNumber({"size"}, "space", FALSE),
    KeyNumber({"qty"}, "space", FALSE)>>

PnlUsdPatterns ==
  <<KeyNumber({"pnl", "profit", "gain", "loss"}, "no_dollar", TRUE),
    DollarNumberKey({"pnl", "gain", "loss"})>>

\* the tests of detectTradeTypeFromNote on the lower-cased words of the note
TradeTypeOf(ws) ==
  IF AnyOf(ws, {"put", "puts"}, {}) THEN "put"
  ELSE IF AnyOf(ws, {"call", "calls"}, {}) THEN "call"
  ELSE IF AnyOf(ws, {"short", "shorted", "shorting"}, {}) THEN "short"
  ELSE "long"

detectTradeTypeFromNote(note) == TradeTypeOf(LowerWords(note))

SentimentMappings ==
  <<[words |-> {"bearish", "fearful", "anxious", "worried", "nervous", "scared"},
     value |-> "bearish"],
    [words |-> {"bullish", "confident", "optimistic", "excited", "positive"},
     value |-> "bullish"],
    [words |-> {"neutral", "meh", "indifferent"}, value |-> "neutral"],
    [words |-> {"frustrated", "upset", "angry", "annoyed", "disappointed"},
     value |-> "frustrated"],
    [words |-> {"happy", "pleased", "relieved", "proud"}, value |-> "happy"]>>

\* the value of the first mapping one of whose words is among ws, the
\* lower-cased words of the note
RECURSIVE FirstMapping(_, _)
FirstMapping(ws, mappings) ==
  IF mappings = <<>> THEN NullStr
  ELSE IF AnyOf(ws, Head(mappings).words, {}) THEN Head(mappings).value
  ELSE FirstMapping(ws, Tail(mappings))

detectSentimentFromNote(note) == FirstMapping(LowerWords(note), SentimentMappings)

\* a heuristic that takes the ticker of the note for the identifier of the
\* record to update
buildFallbackByTicker(note, tradeId, openTrades) ==
  LET detectedTicker == detectTickerFromNote(note)
      inferredTradeId == IF tradeId = Undefined THEN detectedTicker ELSE tradeId
  IN Draft(IF inferredTradeId # Undefined THEN "update" ELSE "create",
           inferredTradeId, inferredTradeId, detectedTicker,
           extractNumberFromNote(note, ExitPricePatterns),
           detectStatusFromNote(note), Null, "heuristic")

\* lines 176-184: the identifier of the open record the note is taken to
\* speak of, when no identifier is forced
inferTradeId(note, tradeId, detectedTicker, openTrades) ==
  LET Matching(t) == t.ticker = sanitizeTicker(detectedTicker)
      matchingOpenTrade == Take(SelectSeq(openTrades, Matching), 1)
  IN IF tradeId = Undefined /\ detectedTicker # Undefined
        /\ matchingOpenTrade # <<>> /\ FALLBACK_UPDATE_HINT(note)
     THEN matchingOpenTrade[1].trade_id
     ELSE tradeId

\* the draft returned for an inferred identifier and a detected ticker
fallbackDraft(note, inferredTradeId, detectedTicker) ==
  [Draft(IF inferredTradeId # Undefined THEN "update" ELSE "create",
         inferredTradeId, inferredTradeId, detectedTicker,
         extractNumberFromNote(note, ExitPricePatterns),
         detectStatusFromNote(note), Null, "heuristic")
     EXCEPT
        !.trade.trade_type = detectTradeTypeFromNote(note),
        !.trade.size = extractNumberFromNote(note, SizePatterns),
        !.trade.entry_price = extractNumberFromNote(note, EntryPricePatterns),
        !.trade.pnl_usd = extractNumberFromNote(note, PnlUsdPatterns),
        !.trade.sentiment = detectSentimentFromNote(note)]

fallbackFor(note, tradeId, openTrades, detectedTicker) ==
  fallbackDraft(note, inferTradeId(note, tradeId, detectedTicker, openTrades),
                detectedTicker)

buildFallbackExtraction(note, tradeId, openTrades) ==
  fallbackFor(note, tradeId, openTrades, detectTickerFromNote(note))

-----------------------------------------------------------------------------
(* types/trade: TradeExtractionSchema *)

\* The body of a JSON response of the extraction capability: the draft's
\* fields, whether an unknown key sits at the top level (extra) and whether
\* one sits inside the trade payload (tradeExtra). The result of parse is
\* <<draft>>, or <<>> when parse throws. Only the outer object is strict: the
\* object of the trade payload drops the keys it does not know.
TradeExtractionSchema(body) ==
  IF /\ body.action \in {"create", "update"}
     /\ body.target_trade_id # NullStr
     /\ body.trade.trade_id # NullStr
     /\ body.trade.ticker # NullStr
     /\ body.trade.trade_type \in {Undefined} \cup tradeTypes
     /\ body.trade.status \in {Undefined, "open", "closed"}
     /\ ~body.extra
  THEN <<[action |-> body.action, target_trade_id |-> body.target_trade_id,
          trade |-> body.trade, reasoning |-> body.reasoning]>>
  ELSE <<>>

-----------------------------------------------------------------------------
(* app/api/trades/route: POST *)

\* the response: its kind, and of a 200 response the action, the id of the
\* returned trade, the id of the note it gained and the reasoning
Result(kind, action, tradeId, noteId, reasoning) ==
  [kind |-> kind, action |-> action, trade_id |-> tradeId, note_id |-> noteId,
   reasoning |-> reasoning]

Failure(kind) == Result(kind, Undefined, Undefined, Undefined, Undefined)

NoResult == Failure("none")

IdleReq ==
  [pc |-> "idle", note |-> <<>>, tradeId |-> Undefined, attachments |-> <<>>,
   openTrades |-> <<>>, llm |-> "none", extraction |-> <<>>, now |-> 0,
   target |-> Undefined, pending |-> <<>>, result |-> NoResult]

\* const resolvedTradeId = tradeId?.trim() ? tradeId.trim() : undefined; the raw
\* id is a token sequence, <<>> for the empty string and for a body without one
resolveTradeId(tradeId) ==
  IF Trim(tradeId) = <<>> THEN Undefined ELSE Trim(tradeId)[1]

\* a completion whose JSON is taken as it comes, without the schema
ExtractionUnparsed(response) ==
  IF response.kind = "json"
  THEN <<[action |-> response.body.action,
          target_trade_id |-> response.body.target_trade_id,
          trade |-> response.body.trade, reasoning |-> response.body.reasoning]>>
  ELSE <<>>

\* the result of the awaited completion and of lines 346-350: <<draft>> or <<>>
ExtractionOf(response) ==
  IF response.kind = "json" THEN TradeExtractionSchema(response.body) ELSE <<>>

\* lines 353-357: <<draft>>, or <<>> when the parse of the fallback throws
FinalExtraction(parsed, note, tradeId, openTrades) ==
  IF parsed = <<>>
  THEN TradeExtractionSchema(
         buildFallbackExtraction(note, tradeId, openTrades) @@ [extra |-> FALSE])
  ELSE parsed

\* an action taken from the draft whatever the caller asked
resolveActionFromDraft(tradeId, extraction) == extraction.action

resolveAction(tradeId, extraction) ==
  IF tradeId # Undefined THEN "update" ELSE extraction.action

resolveTarget(tradeId, extraction) ==
  Coalesce(tradeId,
    Coalesce(extraction.target_trade_id, Coalesce(extraction.trade.trade_id, NullStr)))

\* lines 386-414: the merged record of the update path
updatedTrade(existingTrade, extraction, note, attachments, n, now, noteTime) ==
  LET updatedStatus ==
        sanitizeStatus(Coalesce(extraction.trade.status, existingTrade.status))
  IN [trade_id |-> existingTrade.trade_id,
      ticker |-> sanitizeTicker(Coalesce(extraction.trade.ticker, existingTrade.ticker)),
      trade_type |->
        sanitizeTradeType(Coalesce(extraction.trade.trade_type, existingTrade.trade_type)),
      size |-> CoalesceTime(extraction.trade.size, CoalesceTime(existingTrade.size, Null)),
      entry_price |->
        CoalesceTime(extraction.trade.entry_price,
                     CoalesceTime(existingTrade.entry_price, Null)),
      exit_price |->
        CoalesceTime(extraction.trade.exit_price,
                     CoalesceTime(existingTrade.exit_price, Null)),
      pnl_usd |->
        CoalesceTime(extraction.trade.pnl_usd, CoalesceTime(existingTrade.pnl_usd, Null)),
      sentiment |->
        Coalesce(extraction.trade.sentiment, Coalesce(existingTrade.sentiment, NullStr)),
      status |-> updatedStatus,
      notes |-> mergeNotes(existingTrade.notes, <<createNote(note, n + 1, noteTime)>>),
      attachments |-> mergeAttachments(existingTrade.attachments, attachments),
      closed_at |->
        IF updatedStatus = "closed"
        THEN CoalesceTime(extraction.trade.closed_at,
                          CoalesceTime(existingTrade.closed_at, <<now>>))
        ELSE Null,
      updatedAt |-> now,
      createdAt |-> existingTrade.createdAt]

\* how many ids the create path takes from randomUUID
CreateIds(extraction) == IF IsNullish(extraction.trade.trade_id) THEN 2 ELSE 1

\* lines 439-464: the record of the create path
newTrade(extraction, note, attachments, n, now) ==
  LET trade_id == Coalesce(extraction.trade.trade_id, randomUUID(n + 1))
      status == sanitizeStatus(
                  Coalesce(extraction.trade.status,
                           IF extraction.trade.exit_price # Null THEN "closed" ELSE "open"))
  IN [trade_id |-> trade_id,
      ticker |-> sanitizeTicker(extraction.trade.ticker),
      trade_type |-> sanitizeTradeType(extraction.trade.trade_type),
      size |-> CoalesceTime(extraction.trade.size, Null),
      entry_price |-> CoalesceTime(extraction.trade.entry_price, Null),
      exit_price |-> CoalesceTime(extraction.trade.exit_price, Null),
      pnl_usd |-> CoalesceTime(extraction.trade.pnl_usd, Null),
      sentiment |-> Coalesce(extraction.trade.sentiment, NullStr),
      status |-> status,
      notes |-> <<createNote(note, n + CreateIds(extraction), now)>>,
      attachments |-> attachments,
      closed_at |->
        IF status = "closed" THEN CoalesceTime(extraction.trade.closed_at, <<now>>)
        ELSE Null,
      updatedAt |-> now,
      createdAt |-> now]

\* collection.updateOne({document_id}, {$set: trade}): the first match
RECURSIVE updateOne(_, _, _)
updateOne(docs, documentId, trade) ==
  IF docs = <<>> THEN <<>>
  ELSE IF Head(docs).trade_id = documentId THEN <<trade>> \o Tail(docs)
  ELSE <<Head(docs)>> \o updateOne(Tail(docs), documentId, trade)

\* collection.findOne({document_id}): <<document>> or <<>>
findOne(docs, documentId) == getTradeById(docs, documentId)

insertOne(docs, trade) == Append(docs, trade)

\* the open-record snapshot, lines 298-308
openTradesSnapshot(store, be) ==
  IF be = "collection" THEN Take(SelectSeq(store, IsOpen), OpenTradesLimit)
  ELSE listOpenTrades(store, OpenTradesLimit)

\* the handler has returned: its locals are gone; the request keeps what it
\* was asked and how its extraction ended
Done(req, result) ==
  [IdleReq EXCEPT !.pc = "done", !.note = req.note, !.tradeId = req.tradeId,
                  !.llm = req.llm, !.result = result]

\* the inputs of a request
Attachment(id, name) == [id |-> id, name |-> name]

NoteInputs == {<<>>, <<WS>>, <<"holding", WS, "AAPL">>, <<"trimmed", WS, "AAPL">>}

AttachmentInputs ==
  {<<>>,
   <<Attachment(Undefined, "z"), Attachment("a1", "x"), Attachment("a1", "y")>>}

StoredIds == {trades[i].trade_id : i \in 1..Len(trades)}

KnownIds == StoredIds \cup {"ghost"}

TradeIdInputs == {<<>>, <<WS>>} \cup {<<WS, id, WS>> : id \in KnownIds}

\* what a response says of exit price, status and close time
LlmStates ==
  {<<Null, Undefined, Null>>, <<(<<5>>), Undefined, Null>>, <<Null, "open", <<1>> >>,
   <<Null, "closed", Null>>, <<Null, "closed", <<1>> >>}

\* the reasoning a response gives for its action; the handler returns it
LlmReasoning(action) ==
  IF action = "create" THEN "opens a position" ELSE "adds to a position"

LlmBody(action, target, tradeId, st) ==
  Draft(action, target, tradeId, Undefined, st[1], st[2], st[3], LlmReasoning(action))
    @@ [extra |-> FALSE, tradeExtra |-> FALSE]

NoBody == LlmBody("create", Undefined, Undefined, <<Null, Undefined, Null>>)

\* three violate the schema: an unknown key at the top level, an action
\* outside the enumeration, a null target; the last has an unknown key inside
\* the trade payload
LlmBodies ==
  {LlmBody(action, target, tradeId, st) :
     action \in {"create", "update"}, target \in {Undefined} \cup KnownIds,
     tradeId \in {Undefined} \cup StoredIds, st \in LlmStates}
  \cup {[NoBody EXCEPT !.extra = TRUE], [NoBody EXCEPT !.action = "close"],
        [NoBody EXCEPT !.target_trade_id = NullStr],
        [NoBody EXCEPT !.tradeExtra = TRUE]}

LlmResponses ==
  {[kind |-> k, body |-> NoBody] : k \in {"throws", "not_json"}}
    \cup {[kind |-> "json", body |-> b] : b \in LlmBodies}

\* how the awaited extraction ended
LlmOutcome(response) ==
  IF response.kind # "json" THEN response.kind
  ELSE IF TradeExtractionSchema(response.body) = <<>> THEN "schema" ELSE "ok"

\* what a block of the handler leaves behind: the request, the store and the
\* number of ids produced
Outcome(req, store, n) == [req |-> req, trades |-> store, uuid |-> n]

ResultOf(req, action, trade) ==
  Result("ok", action, trade.trade_id, trade.notes[Len(trade.notes)].id,
         req.extraction[1].reasoning)

\* lines 364-437 without a collection: one synchronous block
MemoryUpdate(req, store, n, now) ==
  LET existingTrade == getTradeById(store, req.target)
  IN IF existingTrade = <<>>
     THEN Outcome(Done(req, Failure("not_found")), store, n)
     ELSE LET merged == updatedTrade(existingTrade[1], req.extraction[1], req.note,
                                     req.attachments, n, req.now, now)
              noteId == randomUUID(n + 1)
          IN Outcome(Done(req, Result("ok", "update", merged.trade_id, noteId,
                                      req.extraction[1].reasoning)),
                     upsertTrade(store, merged), n + 1)

\* lines 439-483 without a collection
MemoryCreate(req, store, n) ==
  LET created == newTrade(req.extraction[1], req.note, req.attachments, n, req.now)
  IN Outcome(Done(req, Result("ok", "create", created.trade_id, created.notes[1].id,
                              req.extraction[1].reasoning)),
             upsertTrade(store, created), n + CreateIds(req.extraction[1]))

\* lines 439-464 with a collection, up to the awaited embedding
CollectionCreate(req, store, n) ==
  LET created == newTrade(req.extraction[1], req.note, req.attachments, n, req.now)
  IN Outcome([req EXCEPT !.pc = "insert", !.pending = <<created>>], store,
             n + CreateIds(req.extraction[1]))

\* lines 366-483 up to the first await: the update or the create of the
\* resolved action, on the request that carries the draft and its target
Dispatch(next, action, store, n, now, be) ==
  IF action = "update"
  THEN IF IsNullish(next.target) \/ next.target = ""
       THEN Outcome(Done(next, Failure("no_target")), store, n)
       ELSE IF be = "collection"
       THEN Outcome([next EXCEPT !.pc = "lookup"], store, n)
       ELSE MemoryUpdate(next, store, n, now)
  ELSE IF be = "collection" THEN CollectionCreate(next, store, n)
       ELSE MemoryCreate(next, store, n)

\* lines 360-364: the action and the target of the final draft
Resolve(req, final, store, n, now, be) ==
  IF final = <<>>
  THEN Outcome(Done(req, Failure("error")), store, n)
  ELSE Dispatch([req EXCEPT !.extraction = final, !.now = now,
                            !.target = resolveTarget(req.tradeId, final[1])],
                resolveAction(req.tradeId, final[1]), store, n, now, be)

\* lines 353-364 and what follows synchronously, once the extraction is settled
Proceed(req, parsed, store, n, now, be) ==
  Resolve(req, FinalExtraction(parsed, req.note, req.tradeId, req.openTrades),
          store, n, now, be)

Apply(r, outcome) ==
  /\ reqs' = [reqs EXCEPT ![r] = outcome.req]
  /\ trades' = outcome.trades
  /\ uuid' = outcome.uuid

\* a validation that tests the note without trimming it
ValidateUntrimmed(note, attachments, tradeId, store, n) ==
  IF note = <<>>
  THEN Outcome(Done([IdleReq EXCEPT !.note = note], Failure("note_required")), store, n)
  ELSE LET sanitizedAttachments == normalizeAttachments(attachments, n)
       IN Outcome([IdleReq EXCEPT !.pc = "snapshot", !.note = note,
                                  !.tradeId = resolveTradeId(tradeId),
                                  !.attachments = sanitizedAttachments[1]],
                  store, sanitizedAttachments[2])

\* lines 289-296: the body is read and the note validated
Validate(note, attachments, tradeId, store, n) ==
  IF Trim(note) = <<>>
  THEN Outcome(Done([IdleReq EXCEPT !.note = note], Failure("note_required")), store, n)
  ELSE LET sanitizedAttachments == normalizeAttachments(attachments, n)
       IN Outcome([IdleReq EXCEPT !.pc = "snapshot", !.note = note,
                                  !.tradeId = resolveTradeId(tradeId),
                                  !.attachments = sanitizedAttachments[1]],
                  store, sanitizedAttachments[2])

PostBegin(r, notes, attachmentLists, tradeIds) ==
  /\ reqs[r].pc \in {"idle", "done"}
  /\ served < MaxRequests
  /\ served' = served + 1
  /\ \E note \in notes, attachments \in attachmentLists, tradeId \in tradeIds :
       Apply(r, Validate(note, attachments, tradeId, trades, uuid))
  /\ UNCHANGED libVars
  /\ UNCHANGED <<backend, apiKey, clock, putResult>>

\* lines 297-313: the snapshot of the open records; without an API key the
\* handler goes on to the fallback without awaiting anything
Snapshot(req, store, n, now, be, key) ==
  LET next == [req EXCEPT !.openTrades = openTradesSnapshot(store, be)]
  IN IF key THEN Outcome([next EXCEPT !.pc = "extract"], store, n)
     ELSE Proceed([next EXCEPT !.llm = "absent"], <<>>, store, n, now, be)

PostSnapshot(r) ==
  /\ reqs[r].pc = "snapshot"
  /\ Apply(r, Snapshot(reqs[r], trades, uuid, clock, backend, apiKey))
  /\ UNCHANGED libVars
  /\ UNCHANGED <<backend, apiKey, clock, served, putResult>>

\* lines 325-351: the awaited completion ends, well or not
Extract(req, response, store, n, now, be) ==
  Proceed([req EXCEPT !.llm = LlmOutcome(response)], ExtractionOf(response),
          store, n, now, be)

PostExtract(r, responses) ==
  /\ reqs[r].pc = "extract"
  /\ \E response \in responses :
       Apply(r, Extract(reqs[r], response, trades, uuid, clock, backend))
  /\ UNCHANGED libVars
  /\ UNCHANGED <<backend, apiKey, clock, served, putResult>>

\* lines 369-414 with a collection: findOne returns and the merge is built
Lookup(req, store, n, now) ==
  LET document == findOne(store, req.target)
  IN IF document = <<>>
     THEN Outcome(Done(req, Failure("not_found")), store, n)
     ELSE Outcome([req EXCEPT !.pc = "write", !.pending =
                     <<updatedTrade(document[1], req.extraction[1], req.note,
                                    req.attachments, n, req.now, now)>>],
                  store, n + 1)

PostLookup(r) ==
  /\ reqs[r].pc = "lookup"
  /\ Apply(r, Lookup(reqs[r], trades, uuid, clock))
  /\ UNCHANGED libVars
  /\ UNCHANGED <<backend, apiKey, clock, served, putResult>>

\* lines 416-436: embedTrade (which never throws) and updateOne
Write(req, store, n) ==
  Outcome(Done(req, ResultOf(req, "update", req.pending[1])),
          updateOne(store, req.target, req.pending[1]), n)

PostWrite(r) ==
  /\ reqs[r].pc = "write"
  /\ Apply(r, Write(reqs[r], trades, uuid))
  /\ UNCHANGED libVars
  /\ UNCHANGED <<backend, apiKey, clock, served, putResult>>

\* lines 466-483: embedTrade and insertOne
Insert(req, store, n) ==
  Outcome(Done(req, ResultOf(req, "create", req.pending[1])),
          insertOne(store, req.pending[1]), n)

PostInsert(r) ==
  /\ reqs[r].pc = "insert"
  /\ Apply(r, Insert(reqs[r], trades, uuid))
  /\ UNCHANGED libVars
  /\ UNCHANGED <<backend, apiKey, clock, served, putResult>>

\* A request served with no other request in between: the blocks of the
\* handler one after the other, each on what the one before left
BeforeExtraction(note, attachments, tradeId, store, n, now, be, key) ==
  LET validated == Validate(note, attachments, tradeId, store, n)
  IN IF validated.req.pc = "snapshot"
     THEN Snapshot(validated.req, validated.trades, validated.uuid, now, be, key)
     ELSE validated

AfterExtraction(extracted, now) ==
  LET found ==
        IF extracted.req.pc = "lookup"
        THEN Lookup(extracted.req, extracted.trades, extracted.uuid, now)
        ELSE extracted
  IN CASE found.req.pc = "write" -> Write(found.req, found.trades, found.uuid)
       [] found.req.pc = "insert" -> Insert(found.req, found.trades, found.uuid)
       [] OTHER -> found

\* what the request can end as from where BeforeExtraction left it: one
\* outcome for each response of the extraction it awaits, if it awaits one
Completions(before, responses, now, be) ==
  IF before.req.pc = "extract"
  THEN {AfterExtraction(Extract(before.req, response, before.trades, before.uuid,
                                now, be), now) : response \in responses}
  ELSE {AfterExtraction(before, now)}

Post ==
  /\ served < MaxRequests
  /\ served' = served + 1
  /\ \E note \in NoteInputs, attachments \in AttachmentInputs, tradeId \in TradeIdInputs :
       \E outcome \in Completions(BeforeExtraction(note, attachments, tradeId, trades,
                                                   uuid, clock, backend, apiKey),
                                  LlmResponses, clock, backend) :
         Apply(1, outcome)
  /\ UNCHANGED libVars
  /\ UNCHANGED <<backend, apiKey, clock, putResult>>

-----------------------------------------------------------------------------
(* app/api/trades/[tradeId]/route: PUT *)

\* body.trade: the fields the modelled record carries; hasExitPrice tells
\* whether the key exit_price is in the body (null is then a value)
TradeUpdate(status, closedAt, ticker, hasExitPrice, exitPrice) ==
  [status |-> status, closed_at |-> closedAt, ticker |-> ticker,
   hasExitPrice |-> hasExitPrice, exit_price |-> exitPrice]

TradeUpdateInputs ==
  {TradeUpdate(status, closedAt, Undefined, FALSE, Null) :
     status \in {Undefined, "open", "closed"}, closedAt \in {Null, <<1>>}}
  \cup {TradeUpdate(Undefined, Null, Undefined, TRUE, <<5>>)}

\* the "updates" object of a reanalysis response: whatever keys the model
\* returned, none of them checked by the handler
ReanalysisUpdates ==
  {[exit_price |-> <<5>>], [status |-> "closed"], [status |-> "open"],
   [closed_at |-> Null]}

ReanalysisResponses ==
  {[kind |-> k, updates |-> [exit_price |-> Null]] : k \in {"throws", "not_json", "empty"}}
    \cup {[kind |-> "updates", updates |-> u] : u \in ReanalysisUpdates}

\* Object.assign(target, source)
ObjectAssign(target, source) ==
  [k \in DOMAIN target |-> IF k \in DOMAIN source THEN source[k] ELSE target[k]]

\* lines 75-105: the record built from the stored one and the body
editedTrade(existing, tradeUpdate, note, attachments, removeAttachmentIds, n, now) ==
  LET cleanedAttachments == normalizeAttachments(attachments, n)
      Kept(attachment) == attachment.id \notin removeAttachmentIds
      keptAttachments == SelectSeq(existing.attachments, Kept)
      updatedStatus ==
        IF IsNullish(tradeUpdate.status) \/ tradeUpdate.status = ""
        THEN sanitizeStatus(existing.status)
        ELSE sanitizeStatus(tradeUpdate.status)
  IN [trade_id |-> existing.trade_id,
      ticker |-> sanitizeTicker(Coalesce(tradeUpdate.ticker, existing.ticker)),
      trade_type |-> sanitizeTradeType(existing.trade_type),
      size |-> existing.size,
      entry_price |-> existing.entry_price,
      exit_price |->
        IF tradeUpdate.hasExitPrice THEN tradeUpdate.exit_price ELSE existing.exit_price,
      pnl_usd |-> existing.pnl_usd,
      sentiment |-> existing.sentiment,
      status |-> updatedStatus,
      attachments |-> mergeAttachments(keptAttachments, cleanedAttachments[1]),
      notes |->
        IF note # <<>>
        THEN mergeNotes(existing.notes, <<createNote(note, cleanedAttachments[2] + 1, now)>>)
        ELSE existing.notes,
      closed_at |->
        IF updatedStatus = "closed"
        THEN CoalesceTime(tradeUpdate.closed_at, CoalesceTime(existing.closed_at, <<now>>))
        ELSE CoalesceTime(tradeUpdate.closed_at, Null),
      updatedAt |-> now,
      createdAt |-> existing.createdAt]

\* the ids lines 75-85 take from randomUUID
EditIds(note, attachments, n) ==
  normalizeAttachments(attachments, n)[2] + (IF note # <<>> THEN 1 ELSE 0)

\* lines 107-146: the reanalysis; <<>> when the awaited completion throws
reanalyzed(trade, reanalyze, note, response) ==
  IF reanalyze /\ note # <<>>
  THEN CASE response.kind = "throws" -> <<>>
         [] response.kind = "updates" -> <<ObjectAssign(trade, response.updates)>>
         [] OTHER -> <<trade>>
  ELSE <<trade>>

\* embed: openai is null without an API key, so the call throws; with one the
\* awaited call succeeds or throws
embed(key, succeeds) == key /\ succeeds

\* the whole handler: <<result, store, ids produced, what became of the
\* embedding call>>
RunPut(tradeId, tradeUpdate, note, attachments, removeAttachmentIds, reanalyze, response, embedded, store, n, now, be, key) ==
  IF be # "collection" THEN <<"error", store, n, "not_called">>
  ELSE LET existingDocument == findOne(store, tradeId)
       IN IF existingDocument = <<>> THEN <<"not_found", store, n, "not_called">>
          ELSE LET edited == editedTrade(existingDocument[1], tradeUpdate, note,
                                         attachments, removeAttachmentIds, n, now)
                   ids == EditIds(note, attachments, n)
                   final == reanalyzed(edited, reanalyze, note, response)
               IN IF final = <<>> THEN <<"error", store, ids, "not_called">>
                  ELSE IF ~embed(key, embedded) THEN <<"error", store, ids, "failed">>
                  ELSE <<"ok", updateOne(store, tradeId, final[1]), ids, "ok">>

EditNotes == {<<>>, <<"holding", WS, "AAPL">>}

NoReanalysis == [kind |-> "empty", updates |-> [exit_price |-> Null]]

Put ==
  /\ served < MaxRequests
  /\ served' = served + 1
  /\ \E tradeId \in KnownIds :
       \E tradeUpdate \in IF tradeId \in StoredIds THEN TradeUpdateInputs
                          ELSE {TradeUpdate(Undefined, Null, Undefined, FALSE, Null)},
          note \in IF tradeId \in StoredIds THEN EditNotes ELSE {<<>>},
          attachments \in IF tradeId \in StoredIds THEN AttachmentInputs ELSE {<<>>},
          removeAttachmentIds \in {{}, {"a1"}}, reanalyze \in BOOLEAN,
          embedded \in BOOLEAN :
         \E response \in IF reanalyze /\ note # <<>> THEN ReanalysisResponses
                         ELSE {NoReanalysis} :
           LET put == RunPut(tradeId, tradeUpdate, note, attachments,
                             removeAttachmentIds, reanalyze, response, embedded,
                             trades, uuid, clock, backend, apiKey)
           IN /\ putResult' = [kind |-> put[1], embedding |-> put[4]]
              /\ trades' = put[2]
              /\ uuid' = put[3]
  /\ UNCHANGED libVars
  /\ UNCHANGED <<backend, apiKey, clock, reqs>>

Tick ==
  /\ clock < MaxTime
  /\ clock' = clock + 1
  /\ UNCHANGED libVars
  /\ UNCHANGED <<backend, apiKey, trades, uuid, served, reqs, putResult>>

\* no library call, no heap: the handlers work on trades alone
NoCall == [fn |-> "none"]

SeedTrade ==
  [trade_id |-> "t1", ticker |-> "AAPL", trade_type |-> "long", size |-> Null,
   entry_price |-> Null, exit_price |-> Null, pnl_usd |-> Null,
   sentiment |-> NullStr, status |-> "open",
   notes |-> <<[id |-> "n0", text |-> <<"bought", WS, "AAPL">>, createdAt |-> 1]>>,
   attachments |-> <<>>, closed_at |-> Null, updatedAt |-> 1, createdAt |-> 1]

InitFor(slots) ==
  /\ backend \in {"memory", "collection"}
  /\ apiKey \in BOOLEAN
  /\ trades \in {<<>>, <<SeedTrade>>}
  /\ clock = 1
  /\ uuid = 0
  /\ served = 0
  /\ reqs = [r \in slots |-> IdleReq]
  /\ putResult = [kind |-> "none", embedding |-> "not_called"]
  /\ call = NoCall
  /\ returned = NoCall
  /\ objects = <<>>
  /\ memory = <<>>
  /\ handles = {}

(* Requests served one at a time *)

Init == InitFor({1})

Next ==
  \/ Post
  \/ Put
  \/ Tick

Spec == Init /\ [][Next]_vars

(* Two requests in flight, each block of a handler a step of its own *)

ConcSlots == {1, 2}

ConcNotes == {<<>>, <<WS>>, <<"holding", WS, "AAPL">>}

ConcTradeIds == {<<>>, <<"t1">>, <<"ghost">>}

ConcResponses ==
  {[kind |-> "throws", body |-> NoBody],
   [kind |-> "not_json", body |-> NoBody],
   [kind |-> "json", body |-> [NoBody EXCEPT !.extra = TRUE]],
   [kind |-> "json", body |-> [NoBody EXCEPT !.tradeExtra = TRUE]],
   [kind |-> "json", body |-> [NoBody EXCEPT !.action = "close"]],
   [kind |-> "json", body |-> [NoBody EXCEPT !.target_trade_id = NullStr]],
   [kind |-> "json", body |-> NoBody],
   [kind |-> "json",
    body |-> LlmBody("update", "t1", Undefined, <<Null, Undefined, Null>>)],
   [kind |-> "json",
    body |-> LlmBody("update", "ghost", Undefined, <<Null, Undefined, Null>>)]}

InitConc == InitFor(ConcSlots)

NextConc ==
  \/ \E r \in ConcSlots : PostBegin(r, ConcNotes, {<<>>}, ConcTradeIds)
  \/ \E r \in ConcSlots : PostSnapshot(r)
  \/ \E r \in ConcSlots : PostExtract(r, ConcResponses)
  \/ \E r \in ConcSlots : PostLookup(r)
  \/ \E r \in ConcSlots : PostWrite(r)
  \/ \E r \in ConcSlots : PostInsert(r)
  \/ Tick

SpecConc == InitConc /\ [][NextConc]_vars

-----------------------------------------------------------------------------
(* Properties of the journal, C1 to C10 *)

Finished(r) == reqs[r].pc = "done"

UpdatedOk(r) ==
  Finished(r) /\ reqs[r].result.kind = "ok" /\ reqs[r].result.action = "update"

RecordsBut(store, tradeId) ==
  LET Other(t) == t.trade_id # tradeId IN SelectSeq(store, Other)

NotesKept(before, after) ==
  /\ Len(after) >= Len(before)
  /\ \A i \in 1..Len(before) : \E j \in 1..Len(after) : after[j] = before[i]

\* C1: every stored record whose status is 'open' has a null close time,
\* after any POST create or update and after any PUT, whatever close time the
\* request or the previous record carried.
C1_OpenHasNoCloseTime ==
  \A i \in 1..Len(trades) : trades[i].status = "open" => trades[i].closed_at = Null

\* C2: every stored record whose status is 'closed' has a close time that is
\* not null, after any POST create or update and after any PUT.
C2_ClosedHasCloseTime ==
  \A i \in 1..Len(trades) : trades[i].status = "closed" => trades[i].closed_at # Null

\* C3: a step of POST /api/trades keeps, under every identifier stored before
\* it, a record with all the notes that identifier had, unchanged, and at least
\* as many of them.
C3_NotesOnlyGrow ==
  [][reqs' # reqs =>
       \A i \in 1..Len(trades) :
         \E j \in 1..Len(trades') :
           /\ trades'[j].trade_id = trades[i].trade_id
           /\ NotesKept(trades[i].notes, trades'[j].notes)]_vars

\* C4: a step of POST /api/trades stores no record under an identifier already
\* stored whose createdAt differs from the one that identifier had.
C4_CreatedAtIsKept ==
  [][reqs' # reqs =>
       \A i \in 1..Len(trades), j \in 1..Len(trades') :
         trades'[j].trade_id = trades[i].trade_id
           => trades'[j].createdAt = trades[i].createdAt]_vars

\* C5: within every stored record the identifiers of the attachments are
\* pairwise distinct.
C5_AttachmentIdsDistinct ==
  \A i \in 1..Len(trades) :
    \A a, b \in 1..Len(trades[i].attachments) :
      trades[i].attachments[a].id = trades[i].attachments[b].id => a = b

\* C6: when two requests have both answered with an update of the same record,
\* that record holds the note of each of them.
C6_NoLostNote ==
  \A r1, r2 \in DOMAIN reqs :
    (r1 # r2 /\ UpdatedOk(r1) /\ UpdatedOk(r2)
       /\ reqs[r1].result.trade_id = reqs[r2].result.trade_id)
      => \E i \in 1..Len(trades) :
           /\ trades[i].trade_id = reqs[r1].result.trade_id
           /\ {reqs[r1].result.note_id, reqs[r2].result.note_id}
                \subseteq NoteIds(trades[i].notes)

\* slot r has gone on as unconfigured, the outcome of a request without the
\* capability, and its draft is the heuristic one
FallsBackAs(r, unconfigured) ==
  /\ [reqs'[r] EXCEPT !.llm = "absent"] = unconfigured.req
  /\ trades' = unconfigured.trades
  /\ uuid' = unconfigured.uuid
  /\ reqs'[r].result.kind # "error"
  /\ reqs'[r].result.kind = "ok" => reqs'[r].result.reasoning = "heuristic"
  /\ reqs'[r].pc # "done"
       => reqs'[r].extraction =
            <<buildFallbackExtraction(reqs[r].note, reqs[r].tradeId,
                                      reqs[r].openTrades)>>

\* C7: when the awaited extraction throws, returns text that is not JSON or
\* returns JSON the schema rejects, the request goes on exactly as a request
\* without the capability goes on from the same note, forced identifier and
\* snapshot: the heuristic draft decides, and the failure is not an error.
C7_FailedExtractionFallsBack ==
  [][\A r \in DOMAIN reqs :
       (reqs[r].pc = "extract" /\ reqs'[r] # reqs[r]
          /\ reqs'[r].llm \in {"throws", "not_json", "schema"})
         => FallsBackAs(r, Proceed([reqs[r] EXCEPT !.llm = "absent"], <<>>, trades,
                                   uuid, clock, backend))]_vars

\* two requests whose extraction failed, one by throwing and one against the
\* schema, were both answered from the heuristic draft
C7_Witness ==
  \E r1, r2 \in DOMAIN reqs :
    /\ Finished(r1) /\ reqs[r1].llm = "throws" /\ reqs[r1].result.kind = "ok"
    /\ reqs[r1].result.reasoning = "heuristic"
    /\ Finished(r2) /\ reqs[r2].llm = "schema" /\ reqs[r2].result.kind = "ok"
    /\ reqs[r2].result.reasoning = "heuristic"

\* C8: a request with a non-blank target identifier never creates: no step of
\* it heads for an insert or adds a record, the records under every other
\* identifier stay as they were, and it answers with an update of that
\* identifier or with 'not found', whatever action or target the draft names.
C8_ForcedTargetNeverCreates ==
  [][\A r \in DOMAIN reqs :
       (reqs'[r] # reqs[r] /\ reqs'[r].tradeId # Undefined)
         => /\ reqs'[r].pc # "insert"
            /\ reqs'[r].target \in {Undefined, reqs'[r].tradeId}
            /\ Finished(r)' => reqs'[r].result.kind \in {"ok", "not_found"}
            /\ reqs'[r].result.action # "create"
            /\ reqs'[r].result.kind = "ok"
                 => /\ reqs'[r].result.action = "update"
                    /\ reqs'[r].result.trade_id = reqs'[r].tradeId
            /\ Len(trades') = Len(trades)
            /\ RecordsBut(trades', reqs'[r].tradeId)
                 = RecordsBut(trades, reqs'[r].tradeId)]_vars

\* a request naming t1 was answered with an update of t1 although its draft,
\* accepted by the schema, said create
C8_Witness ==
  \E r \in DOMAIN reqs :
    /\ UpdatedOk(r) /\ reqs[r].tradeId = "t1" /\ reqs[r].llm = "ok"
    /\ reqs[r].result.trade_id = "t1"
    /\ reqs[r].result.reasoning = LlmReasoning("create")
    /\ \E i \in 1..Len(trades) :
         trades[i].trade_id = "t1" /\ reqs[r].result.note_id \in NoteIds(trades[i].notes)

\* C9: a request whose target identifier matches no stored record changes
\* nothing in the store, looks the identifier up once and then answers 'not
\* found': no step of it reaches a write or an insert.
C9_UnknownTargetNotFound ==
  [][\A r \in DOMAIN reqs :
       (reqs'[r] # reqs[r] /\ reqs'[r].tradeId # Undefined
          /\ reqs'[r].tradeId \notin StoredIds)
         => /\ trades' = trades
            /\ reqs'[r].pc \in {"snapshot", "extract", "lookup", "done"}
            /\ reqs[r].pc = "lookup" => Finished(r)'
            /\ Finished(r)' => reqs'[r].result = Failure("not_found")]_vars

\* a request naming an identifier that is not stored was answered 'not found'
\* while a record was there to be taken instead
C9_Witness ==
  \E r \in DOMAIN reqs :
    /\ Finished(r) /\ reqs[r].tradeId = "ghost"
    /\ reqs[r].result.kind = "not_found"
    /\ trades # <<>> /\ "ghost" \notin StoredIds

\* C10: a request whose note is empty or only whitespace is answered 'note
\* required' in its first step: no snapshot is read, no extraction of either
\* kind is attempted, no identifier is produced and the store stays as it was.
C10_BlankNoteRejectedFirst ==
  [][\A r \in DOMAIN reqs :
       (reqs'[r] # reqs[r] /\ Trim(reqs'[r].note) = <<>>)
         => /\ reqs'[r] = Done([IdleReq EXCEPT !.note = reqs'[r].note],
                               Failure("note_required"))
            /\ reqs'[r].llm = "none"
            /\ trades' = trades
            /\ uuid' = uuid]_vars

\* a note of whitespace only was refused while a record was stored
C10_Witness ==
  \E r \in DOMAIN reqs :
    /\ Finished(r) /\ reqs[r].note = <<WS>>
    /\ reqs[r].result.kind = "note_required"
    /\ trades # <<>>

-----------------------------------------------------------------------------
(* Properties of the journal, C11 to C20 *)

\* C12: an embedding call that is absent or fails never surfaces as an error:
\* a record edit whose embedding call failed still completes and stores the
\* edited record.
C12_EmbeddingFailureIsNotAnError ==
  putResult.embedding = "failed" => putResult.kind = "ok"

(* The heuristic path: no API key, requests served one at a time *)

ClosedAaplNote ==
  <<"Closed", WS, "AAPL", WS, "for", WS, "$350", WS, "profit", ",", WS, "felt",
    WS, "confident">>

BoughtCallsNote ==
  <<"Bought", WS, "100", WS, "AAPL", WS, "calls", WS, "@", WS, "5.20">>

HeuristicNotes ==
  {<<WS>>, <<"holding", WS, "AAPL">>, <<"felt", WS, "confident">>,
   <<"sold", WS, "$tsla">>, ClosedAaplNote, BoughtCallsNote}

OpenAaplCall == [SeedTrade EXCEPT !.trade_type = "call"]

InitHeuristic ==
  /\ backend \in {"memory", "collection"}
  /\ apiKey = FALSE
  /\ trades \in {<<>>, <<OpenAaplCall>>}
  /\ clock = 1
  /\ uuid = 0
  /\ served = 0
  /\ reqs = [r \in {1} |-> IdleReq]
  /\ putResult = [kind |-> "none", embedding |-> "not_called"]
  /\ call = NoCall
  /\ returned = NoCall
  /\ objects = <<>>
  /\ memory = <<>>
  /\ handles = {}

NextHeuristic ==
  \/ PostBegin(1, HeuristicNotes, {<<>>}, {<<>>})
  \/ PostSnapshot(1)
  \/ PostLookup(1)
  \/ PostWrite(1)
  \/ PostInsert(1)
  \/ Tick

SpecHeuristic == InitHeuristic /\ [][NextHeuristic]_vars

\* the step in which request r is answered
Answers(r) == reqs'[r] # reqs[r] /\ reqs'[r].pc = "done"

\* the stored records with a given identifier
Stored(store, tradeId) ==
  LET Same(t) == t.trade_id = tradeId IN SelectSeq(store, Same)

\* what the data model asks of a record
Conforms(t) ==
  /\ t.trade_id \notin {Undefined, NullStr, ""}
  /\ t.ticker \notin {Undefined, NullStr, ""}
  /\ t.trade_type \in tradeTypes
  /\ t.status \in {"open", "closed"}
  /\ t.status = "closed" <=> t.closed_at # Null
  /\ t.notes # <<>>
  /\ \A i, j \in 1..Len(t.notes) : t.notes[i].id = t.notes[j].id => i = j

C18_ClosingNoteUpdatesOpenRecord ==
  [][\A r \in DOMAIN reqs :
       (Answers(r) /\ reqs'[r].note = ClosedAaplNote /\ reqs'[r].tradeId = Undefined
          /\ ~apiKey /\ Stored(trades, "t1") = <<OpenAaplCall>>)
         => LET result == reqs'[r].result
                after == Stored(trades', "t1")
            IN /\ result.kind = "ok" /\ result.action = "update"
               /\ result.trade_id = "t1"
               /\ Len(trades') = Len(trades)
               /\ Len(after) = 1
               /\ after[1].status = "closed"
               /\ after[1].pnl_usd = <<35000>>
               /\ after[1].sentiment = "bullish"
               /\ after[1].closed_at # Null
               /\ Len(after[1].notes) = Len(OpenAaplCall.notes) + 1
               /\ NotesKept(OpenAaplCall.notes, after[1].notes)]_vars

\* C19: on the heuristic path, with no open AAPL record stored, the note
\* "Bought 100 AAPL calls @ 5.20" creates a record with ticker AAPL, trade kind
\* call, entry_price 5.20, size 100 and status open.
C19_BoughtNoteCreatesCall ==
  [][\A r \in DOMAIN reqs :
       (Answers(r) /\ reqs'[r].note = BoughtCallsNote /\ reqs'[r].tradeId = Undefined
          /\ ~apiKey
          /\ \A i \in 1..Len(trades) :
               ~(trades[i].ticker = "AAPL" /\ trades[i].status = "open"))
         => LET result == reqs'[r].result
                created == Stored(trades', result.trade_id)
            IN /\ result.kind = "ok" /\ result.action = "create"
               /\ Stored(trades, result.trade_id) = <<>>
               /\ Len(created) = 1
               /\ created[1].ticker = "AAPL"
               /\ created[1].trade_type = "call"
               /\ created[1].entry_price = <<520>>
               /\ created[1].size = <<10000>>
               /\ created[1].status = "open"]_vars

-----------------------------------------------------------------------------
(* lib/memory-trade-store: listTrades and the keyword search *)

SearchLimit == 15

\* matchesFilter for a filter of one key, status, compared without case;
\* Undefined when the filter has no such key
matchesFilter(trade, filter) ==
  filter.status = Undefined \/ ToLowerCase(filter.status) = ToLowerCase(trade.status)

\* the comparator of sortTrades says that a is to come before b
ComesBefore(a, b, options) ==
  LET key == IF options.sortBy = "updatedAt" THEN "updatedAt" ELSE "createdAt"
  IN IF options.direction = "asc" THEN a[key] < b[key] ELSE a[key] > b[key]

\* [...trades].sort(comparator): stable
RECURSIVE InsertSorted(_, _, _)
InsertSorted(sorted, t, options) ==
  IF sorted = <<>> THEN <<t>>
  ELSE IF ComesBefore(t, Head(sorted), options) THEN <<t>> \o sorted
  ELSE <<Head(sorted)>> \o InsertSorted(Tail(sorted), t, options)

RECURSIVE sortTrades(_, _)
sortTrades(list, options) ==
  IF list = <<>> THEN <<>>
  ELSE InsertSorted(sortTrades(SubSeq(list, 1, Len(list) - 1), options),
                    list[Len(list)], options)

\* ListOptions; the limit is Null when left out
ListOptions(sortBy, direction, limit) ==
  [sortBy |-> sortBy, direction |-> direction, limit |-> limit]

NoFilter == [status |-> Undefined]

\* the clones of the filtered, sorted and limited records; a limit that is
\* left out or 0 is falsy and limits nothing
listTrades(store, filter, options) ==
  LET Matches(t) == matchesFilter(t, filter)
      sorted == sortTrades(SelectSeq(store, Matches), options)
  IN IF options.limit # Null /\ options.limit[1] # 0
     THEN Take(sorted, options.limit[1])
     ELSE sorted

\* the lower-case runs of letters and digits of one token: what
\* split(/[^a-z0-9]+/i) leaves of it
Runs(w) ==
  CASE w \in {WS, ",", "@"} -> <<>>
    [] w \in {"$tsla", "$TSLA"} -> <<"tsla">>
    [] w = "$350" -> <<"350">>
    [] w = "5.20" -> <<"5", "20">>
    [] OTHER -> <<ToLowerCase(w)>>

RECURSIVE AllRuns(_)
AllRuns(text) == IF text = <<>> THEN <<>> ELSE Runs(Head(text)) \o AllRuns(Tail(text))

\* Array.from(new Set(list)): the first occurrence of each element
RECURSIVE Distinct(_)
Distinct(list) ==
  IF list = <<>> THEN <<>>
  ELSE LET front == Distinct(SubSeq(list, 1, Len(list) - 1))
           last == list[Len(list)]
       IN IF \E i \in 1..Len(front) : front[i] = last THEN front
          ELSE Append(front, last)

buildSearchTokens(query) == Distinct(AllRuns(query))

\* the runs of `${value ?? 'n/a'}` for a number kept in hundredths
NumberRuns(value) ==
  IF value = Null THEN <<"n", "a">>
  ELSE LET v == IF value[1] < 0 THEN 0 - value[1] ELSE value[1]
           cents == v % 100
       IN <<ToString(v \div 100)>>
            \o (IF cents = 0 THEN <<>>
                ELSE IF cents % 10 = 0 THEN <<ToString(cents \div 10)>>
                ELSE IF cents < 10 THEN <<"0" \o ToString(cents)>>
                ELSE <<ToString(cents)>>)

StringRuns(value) ==
  IF IsNullish(value) THEN <<"n", "a">> ELSE <<ToLowerCase(value)>>

RECURSIVE NoteBlock(_)
NoteBlock(notes) ==
  IF notes = <<>> THEN <<>>
  ELSE <<"note", ToString(Head(notes).createdAt)>> \o AllRuns(Head(notes).text)
         \o NoteBlock(Tail(notes))

\* the runs of buildEmbeddingText(trade), lower case; the record of the model
\* has no percent pnl, no R:R and no summary
buildEmbeddingText(trade) ==
  <<"ticker", ToLowerCase(trade.ticker), "type", trade.trade_type,
    "status", trade.status, "size">> \o NumberRuns(trade.size)
    \o <<"entry">> \o NumberRuns(trade.entry_price)
    \o <<"exit">> \o NumberRuns(trade.exit_price)
    \o <<"pnl", "usd">> \o NumberRuns(trade.pnl_usd)
    \o <<"pnl", "n", "a", "r", "r", "n", "a", "sentiment">>
    \o StringRuns(trade.sentiment)
    \o NoteBlock(trade.notes)

RECURSIVE NoteText(_)
NoteText(notes) ==
  IF notes = <<>> THEN <<>> ELSE AllRuns(Head(notes).text) \o NoteText(Tail(notes))

\* the runs of the corpus: metadata, note text, summary, embedding text
buildSearchCorpus(trade) ==
  <<ToLowerCase(trade.ticker), trade.trade_type, trade.status>>
    \o (IF IsNullish(trade.sentiment) THEN <<>> ELSE <<ToLowerCase(trade.sentiment)>>)
    \o NoteText(trade.notes)
    \o buildEmbeddingText(trade)

\* corpus.match(new RegExp(token, 'g')).length: a token of the model's queries
\* occurs in a run only as the whole run
Occurrences(corpus, token) == Cardinality({i \in 1..Len(corpus) : corpus[i] = token})

RECURSIVE Score(_, _)
Score(trade, tokens) ==
  IF tokens = <<>> THEN 0
  ELSE (IF ToLowerCase(trade.ticker) = Head(tokens) THEN 3 ELSE 0)
         + Occurrences(buildSearchCorpus(trade), Head(tokens))
         + Score(trade, Tail(tokens))

rankTradesByTokens(candidates, tokens) ==
  [i \in 1..Len(candidates) |->
     [trade |-> candidates[i], score |-> Score(candidates[i], tokens)]]

\* ranked.sort by score descending, then updatedAt descending: stable
RECURSIVE InsertByScore(_, _)
InsertByScore(sorted, r) ==
  IF sorted = <<>> THEN <<r>>
  ELSE IF \/ r.score > Head(sorted).score
          \/ r.score = Head(sorted).score
               /\ r.trade.updatedAt > Head(sorted).trade.updatedAt
       THEN <<r>> \o sorted
  ELSE <<Head(sorted)>> \o InsertByScore(Tail(sorted), r)

RECURSIVE SortRanked(_)
SortRanked(ranked) ==
  IF ranked = <<>> THEN <<>>
  ELSE InsertByScore(SortRanked(SubSeq(ranked, 1, Len(ranked) - 1)), ranked[Len(ranked)])

\* the records in the order of the candidates, whatever their scores
candidateOrder(ranked) == [i \in 1..Len(ranked) |-> ranked[i].trade]

sortByScore(ranked) ==
  LET sorted == SortRanked(ranked) IN [i \in 1..Len(sorted) |-> sorted[i].trade]

searchTrades(store, query, filter, limit) ==
  LET tokens == buildSearchTokens(query)
      candidates == listTrades(store, filter, ListOptions("updatedAt", "desc", Null))
  IN Take(sortByScore(rankTradesByTokens(candidates, tokens)), limit)

\* the narrative: the empty-result message, or the header and its count
buildSearchAnswer(query, found) ==
  IF found = <<>> THEN [kind |-> "not_found", query |-> query, count |-> 0]
  ELSE [kind |-> "found", query |-> query, count |-> Len(found)]

-----------------------------------------------------------------------------
(* lib/analytics *)

\* typeof trade.pnl_usd === 'number', then typeof trade.pnl_pct === 'number'
isWin(trade) ==
  IF trade.pnl_usd # Null THEN trade.pnl_usd[1] > 0
  ELSE IF trade.pnl_pct # Null THEN trade.pnl_pct[1] > 0
  ELSE FALSE

\* a.closed_at ? new Date(a.closed_at).getTime() : 0
closeTime(trade) == IF trade.closed_at # Null THEN trade.closed_at[1] ELSE 0

\* the closed records walked as they come, without the sort
InputOrder(entries) == entries

\* [...closedTrades].sort((a, b) => aDate - bDate): stable
RECURSIVE InsertByClose(_, _)
InsertByClose(sorted, trade) ==
  IF sorted = <<>> THEN <<trade>>
  ELSE IF closeTime(Head(sorted)) <= closeTime(trade)
       THEN <<Head(sorted)>> \o InsertByClose(Tail(sorted), trade)
       ELSE <<trade>> \o sorted

RECURSIVE SortByClose(_)
SortByClose(entries) ==
  IF entries = <<>> THEN <<>>
  ELSE InsertByClose(SortByClose(SubSeq(entries, 1, Len(entries) - 1)),
                     entries[Len(entries)])

\* sortedByClose.forEach: <<longestWinStreak, currentWinStreak>> after the walk
RECURSIVE Streaks(_, _, _)
Streaks(sortedByClose, longest, current) ==
  IF sortedByClose = <<>> THEN <<longest, current>>
  ELSE IF isWin(Head(sortedByClose))
       THEN Streaks(Tail(sortedByClose),
                    IF current + 1 > longest THEN current + 1 ELSE longest,
                    current + 1)
       ELSE Streaks(Tail(sortedByClose), longest, 0)

IsClosed(trade) == trade.status = "closed"

\* toNumber(trade.pnl_usd) ?? toNumber(trade.pnl_pct) ?? the sentinel: Null
\* stands for the sentinel, -Infinity for bestTrade and Infinity for worstTrade
pnlScore(trade) == IF trade.pnl_usd # Null THEN trade.pnl_usd ELSE trade.pnl_pct

\* tradeScore > bestScore, Null being -Infinity
ScoreAbove(tradeScore, bestScore) ==
  tradeScore # Null /\ (bestScore = Null \/ tradeScore[1] > bestScore[1])

\* tradeScore < worstScore, Null being Infinity
ScoreBelow(tradeScore, worstScore) ==
  tradeScore # Null /\ (worstScore = Null \/ tradeScore[1] < worstScore[1])

\* the positions in the input of the closed records, in order: a record object
\* is known by its position in the input
ClosedPositions(entries) ==
  LET Closed(i) == IsClosed(entries[i])
  IN SelectSeq([i \in 1..Len(entries) |-> i], Closed)

\* closedTrades.reduce for bestTrade: best is Null or <<position>>
RECURSIVE ReduceBest(_, _, _)
ReduceBest(entries, closed, best) ==
  IF closed = <<>> THEN best
  ELSE ReduceBest(entries, Tail(closed),
                  IF best = Null THEN <<Head(closed)>>
                  ELSE IF ScoreAbove(pnlScore(entries[Head(closed)]),
                                     pnlScore(entries[best[1]]))
                  THEN <<Head(closed)>>
                  ELSE best)

\* closedTrades.reduce for worstTrade
RECURSIVE ReduceWorst(_, _, _)
ReduceWorst(entries, closed, worst) ==
  IF closed = <<>> THEN worst
  ELSE ReduceWorst(entries, Tail(closed),
                   IF worst = Null THEN <<Head(closed)>>
                   ELSE IF ScoreBelow(pnlScore(entries[Head(closed)]),
                                      pnlScore(entries[worst[1]]))
                   THEN <<Head(closed)>>
                   ELSE worst)

\* the counts, streaks and extremes of TradeAnalytics; bestTrade and
\* worstTrade are Null or <<the position in the input of the record>>
calculateAnalytics(entries) ==
  LET closedTrades == SelectSeq(entries, IsClosed)
      streaks == Streaks(SortByClose(closedTrades), 0, 0)
  IN [totalTrades |-> Len(entries),
      openTrades |-> Len(entries) - Len(closedTrades),
      closedTrades |-> Len(closedTrades),
      longestWinStreak |-> streaks[1],
      currentWinStreak |-> streaks[2],
      bestTrade |-> ReduceBest(entries, ClosedPositions(entries), Null),
      worstTrade |-> ReduceWorst(entries, ClosedPositions(entries), Null)]

-----------------------------------------------------------------------------
(* The library called directly: one call at a time, on arguments of any kind *)

MaxNotes == 2
MaxAttachments == 2
MaxEntries == 3
MaxStored == 2

SeqsUpTo(S, n) == UNION {[1..k -> S] : k \in 0..n}

NoteLists ==
  SeqsUpTo({[id |-> id, text |-> <<"note">>, createdAt |-> at] :
              id \in {"n1", "n2"}, at \in {1, 2}}, MaxNotes)

AttachmentLists ==
  SeqsUpTo({Attachment(id, name) : id \in {"a1", "a2"}, name \in {"x", "y"}},
           MaxAttachments)

\* what calculateAnalytics reads of a record
Entry(status, closedAt, pnlUsd, pnlPct) ==
  [status |-> status, closed_at |-> closedAt, pnl_usd |-> pnlUsd, pnl_pct |-> pnlPct]

Pnls ==
  {<<(<<100>>), Null>>, <<(<<75>>), Null>>, <<(<<-50>>), Null>>,
   <<(<<-50>>), <<5>> >>, <<Null, <<5>> >>, <<Null, Null>>}

Entries ==
  {Entry("open", Null, <<100>>, Null)}
    \cup {Entry("closed", at, pnl[1], pnl[2]) : at \in {Null, <<1>>, <<2>>}, pnl \in Pnls}

EntryLists == SeqsUpTo(Entries, MaxEntries)

SoldTsla ==
  [SeedTrade EXCEPT !.trade_id = "t2", !.ticker = "TSLA", !.status = "closed",
                    !.closed_at = <<2>>, !.sentiment = "bearish",
                    !.notes = <<[id |-> "n1", text |-> <<"sold", WS, "$TSLA">>,
                                 createdAt |-> 2]>>,
                    !.updatedAt = 2]

HeldAapl ==
  [SeedTrade EXCEPT !.trade_id = "t3", !.updatedAt = 2,
                    !.notes = <<[id |-> "n2", text |-> <<"holding", WS, "AAPL">>,
                                 createdAt |-> 2]>>]

\* the stores of up to MaxStored records, no identifier twice
Stores ==
  {store \in SeqsUpTo({SeedTrade, SoldTsla, HeldAapl}, MaxStored) :
     \A i, j \in 1..Len(store) : store[i].trade_id = store[j].trade_id => i = j}

FearfulQuery == <<"fearful", WS, "losing", WS, "trades">>

Queries ==
  {<<>>, <<WS>>, FearfulQuery, <<"AAPL">>, <<"holding", WS, "AAPL">>,
   <<"bearish", WS, "TSLA">>}

InitLib ==
  /\ backend = "memory"
  /\ apiKey = FALSE
  /\ trades = <<>>
  /\ clock = 1
  /\ uuid = 0
  /\ served = 0
  /\ reqs = [r \in {1} |-> IdleReq]
  /\ putResult = [kind |-> "none", embedding |-> "not_called"]
  /\ call = NoCall
  /\ returned = NoCall
  /\ objects = <<>>
  /\ memory = <<>>
  /\ handles = {}

handlerVars == <<backend, apiKey, trades, clock, uuid, served, reqs, putResult>>

Returns(invocation, value) ==
  /\ call = NoCall
  /\ call' = invocation
  /\ returned' = value
  /\ UNCHANGED <<objects, memory, handles>>
  /\ UNCHANGED handlerVars

CallMergeNotes ==
  /\ call = NoCall
  /\ \E existing \in NoteLists, incoming \in NoteLists :
        Returns([fn |-> "mergeNotes", existing |-> existing, incoming |-> incoming],
                mergeNotes(existing, incoming))

CallMergeAttachments ==
  /\ call = NoCall
  /\ \E existing \in AttachmentLists, incoming \in AttachmentLists :
        Returns([fn |-> "mergeAttachments", existing |-> existing, incoming |-> incoming],
                mergeAttachments(existing, incoming))

CallCalculateAnalytics ==
  /\ call = NoCall
  /\ \E entries \in EntryLists :
        Returns([fn |-> "calculateAnalytics", entries |-> entries],
                calculateAnalytics(entries))

\* the store after upsertTrade(trade)
CallUpsertTrade ==
  /\ call = NoCall
  /\ \E store \in Stores,
         trade \in {SeedTrade, SoldTsla, HeldAapl, [SeedTrade EXCEPT !.ticker = "MSFT"]} :
        Returns([fn |-> "upsertTrade", store |-> store, trade |-> trade],
                upsertTrade(store, trade))

CallSearchTrades ==
  /\ call = NoCall
  /\ \E store \in Stores, query \in Queries,
         filter \in {NoFilter, [status |-> "open"]}, limit \in {1, SearchLimit} :
        Returns([fn |-> "searchTrades", store |-> store, query |-> query,
                 filter |-> filter, limit |-> limit],
                searchTrades(store, query, filter, limit))

ListLimits == {Null, <<0>>, <<1>>, <<2>>}

CallListTrades ==
  /\ call = NoCall
  /\ \E store \in Stores, filter \in {NoFilter, [status |-> "open"]},
         sortBy \in {"createdAt", "updatedAt"}, direction \in {"asc", "desc"},
         limit \in ListLimits :
        Returns([fn |-> "listTrades", store |-> store, filter |-> filter,
                 options |-> ListOptions(sortBy, direction, limit)],
                listTrades(store, filter, ListOptions(sortBy, direction, limit)))

TickerNotes ==
  HeuristicNotes \cup {<<"sold", WS, "AAPL">>, <<"CALL", WS, "TSLA">>, <<"PUT">>,
                       <<"Closed", WS, "$350">>}

CallDetectTickerFromNote ==
  /\ call = NoCall
  /\ \E note \in TickerNotes :
        Returns([fn |-> "detectTickerFromNote", note |-> note],
                detectTickerFromNote(note))

TickerInputs == {Undefined, NullStr, "", " ", " tsla ", "AAPL"}

CallSanitizeTicker ==
  /\ call = NoCall
  /\ \E value \in TickerInputs :
        Returns([fn |-> "sanitizeTicker", value |-> value], sanitizeTicker(value))

\* the create path's record for a draft that names a ticker
CallNewTrade ==
  /\ call = NoCall
  /\ \E ticker \in TickerInputs \ {NullStr}, now \in 1..MaxTime :
        LET extraction == Draft("create", Undefined, Undefined, ticker, Null,
                                Undefined, Null, "opens a position")
        IN Returns([fn |-> "newTrade", extraction |-> extraction, now |-> now],
                   newTrade(extraction, <<"holding", WS, "AAPL">>, <<>>, 0, now))

\* the caller is done with the result
Drop ==
  /\ call # NoCall
  /\ call' = NoCall
  /\ returned' = NoCall
  /\ UNCHANGED <<objects, memory, handles>>
  /\ UNCHANGED handlerVars

NextLib ==
  \/ CallMergeNotes
  \/ CallMergeAttachments
  \/ CallCalculateAnalytics
  \/ CallUpsertTrade
  \/ CallSearchTrades
  \/ CallListTrades
  \/ CallDetectTickerFromNote
  \/ CallSanitizeTicker
  \/ CallNewTrade
  \/ Drop

SpecLib == InitLib /\ [][NextLib]_vars

-----------------------------------------------------------------------------
(* The memory store on the heap: records are objects, the store and its    *)
(* callers hold references. cloneTrade copies a record with its notes and  *)
(* attachments, so a record and what it holds are one object here.         *)

MaxObjects == 3

Addresses == 1..MaxObjects

\* the objects reachable from the store or from the caller
Reachable(refs, held) == {refs[i] : i \in 1..Len(refs)} \cup held

\* the heap without the objects nothing refers to any more
Collect(heap, refs, held) ==
  [a \in DOMAIN heap \cap Reachable(refs, held) |-> heap[a]]

\* a new object holding a value: <<the heap with it, its address>>
Allocate(heap, value) ==
  LET free == Addresses \ DOMAIN heap
      a == CHOOSE x \in free : \A y \in free : x <= y
  IN <<[x \in DOMAIN heap \cup {a} |-> IF x = a THEN value ELSE heap[x]], a>>

\* list.map(cloneTrade): <<the heap with the clones, their addresses>>
RECURSIVE CloneAll(_, _)
CloneAll(heap, values) ==
  IF values = <<>> THEN <<heap, {}>>
  ELSE LET first == Allocate(heap, Head(values))
           rest == CloneAll(first[1], Tail(values))
       IN <<rest[1], {first[2]} \cup rest[2]>>

\* store.trades as the records themselves
StoreView == [i \in 1..Len(memory) |-> objects[memory[i]]]

Room(n) == Cardinality(DOMAIN objects) + n <= MaxObjects

OnHeap(heap, refs, held) ==
  /\ objects' = Collect(heap, refs, held)
  /\ memory' = refs
  /\ handles' = held
  /\ UNCHANGED <<call, returned>>
  /\ UNCHANGED handlerVars

\* listTrades(): the caller receives clones
HeapListTrades ==
  LET listed == listTrades(StoreView, NoFilter, ListOptions("createdAt", "desc", Null))
  IN /\ listed # <<>>
     /\ Room(Len(listed))
     /\ LET cloned == CloneAll(objects, listed)
        IN OnHeap(cloned[1], memory, handles \cup cloned[2])

\* getTradeById(tradeId): the caller receives a clone of the match
HeapGetTradeById ==
  \E tradeId \in {"t1", "t3"} :
    LET match == getTradeById(StoreView, tradeId)
    IN /\ match # <<>>
       /\ Room(1)
       /\ LET cloned == CloneAll(objects, match)
          IN OnHeap(cloned[1], memory, handles \cup cloned[2])

\* searchTrades(query): the caller receives clones of the clones
HeapSearchTrades ==
  LET found == searchTrades(StoreView, <<"AAPL">>, NoFilter, SearchLimit)
  IN /\ found # <<>>
     /\ Room(Len(found))
     /\ LET cloned == CloneAll(objects, found)
        IN OnHeap(cloned[1], memory, handles \cup cloned[2])

\* upsertTrade(trade) on a record the caller holds: the copy goes into the
\* store, and the very same copy is returned to the caller
HeapUpsertTrade(h) ==
  /\ Room(1)
  /\ LET copy == Allocate(objects, objects[h])
         Other(a) == objects[a].trade_id # objects[h].trade_id
     IN OnHeap(copy[1], <<copy[2]>> \o SelectSeq(memory, Other), handles \cup {copy[2]})

\* the caller builds a record of its own
HeapNew ==
  /\ Room(1)
  /\ LET made == Allocate(objects, HeldAapl)
     IN OnHeap(made[1], memory, handles \cup {made[2]})

\* what a caller does to a record it holds: a field assigned, a note pushed
Scribble == [id |-> "scribble", text |-> <<"holding">>, createdAt |-> 1]

Mutations(trade) ==
  {[trade EXCEPT !.ticker = "MSFT"], [trade EXCEPT !.notes = <<Scribble>>]}

HeapMutate(h) ==
  \E mutated \in Mutations(objects[h]) :
    /\ mutated # objects[h]
    /\ OnHeap([objects EXCEPT ![h] = mutated], memory, handles)

\* the caller lets go of a record
HeapRelease(h) == OnHeap(objects, memory, handles \ {h})

InitHeap ==
  /\ backend = "memory"
  /\ apiKey = FALSE
  /\ trades = <<>>
  /\ clock = 1
  /\ uuid = 0
  /\ served = 0
  /\ reqs = [r \in {1} |-> IdleReq]
  /\ putResult = [kind |-> "none", embedding |-> "not_called"]
  /\ call = NoCall
  /\ returned = NoCall
  /\ \E store \in {<<>>, <<SeedTrade>>} :
       /\ objects = [a \in 1..Len(store) |-> store[a]]
       /\ memory = [a \in 1..Len(store) |-> a]
  /\ handles = {}

NextHeap ==
  \/ HeapListTrades
  \/ HeapGetTradeById
  \/ HeapSearchTrades
  \/ \E h \in handles : HeapUpsertTrade(h)
  \/ HeapNew
  \/ \E h \in handles : HeapMutate(h)
  \/ \E h \in handles : HeapRelease(h)

SpecHeap == InitHeap /\ [][NextHeap]_vars

\* C15: the store shares no structure with its callers: when a caller mutates
\* a record it holds - one returned by listTrades, getTradeById, searchTrades
\* or upsertTrade, or one it passed to upsertTrade - the records of the store,
\* and so what any later read returns, stay as they were.
C15_StoreSharesNothing ==
  [][(\E h \in handles : HeapMutate(h)) => StoreView' = StoreView]_vars

-----------------------------------------------------------------------------
(* Properties of the library *)

\* the lists a and b hold the same elements, each as often
SameElements(a, b) ==
  \A x \in {a[i] : i \in 1..Len(a)} \cup {b[i] : i \in 1..Len(b)} :
    Cardinality({i \in 1..Len(a) : a[i] = x}) = Cardinality({i \in 1..Len(b) : b[i] = x})

\* C16: for every note list E, mergeNotes(E, E) holds exactly the notes of E,
\* none added, dropped or duplicated, in ascending order of creation time, and
\* merging the result with itself returns the same list.
C16_MergeNotesWithItself ==
  (call.fn = "mergeNotes" /\ call.existing = call.incoming)
    => /\ SameElements(returned, call.existing)
       /\ \A i \in 1..(Len(returned) - 1) :
            returned[i].createdAt <= returned[i + 1].createdAt
       /\ mergeNotes(returned, returned) = returned

\* a list whose later note was created first was merged with itself and came
\* back re-sorted
C16_Witness ==
  /\ call.fn = "mergeNotes" /\ call.existing = call.incoming
  /\ Len(call.existing) = 2
  /\ call.existing[1].createdAt > call.existing[2].createdAt
  /\ returned = <<call.existing[2], call.existing[1]>>

DistinctIds(list) == \A i, j \in 1..Len(list) : list[i].id = list[j].id => i = j

\* C17 as stated: for every attachment list A, mergeAttachments(A, A) equals A,
\* same attachments in the same order.
C17_MergeAttachmentsWithItself ==
  (call.fn = "mergeAttachments" /\ call.existing = call.incoming)
    => returned = call.existing

\* C17 amended: mergeAttachments(A, A) equals A for every attachment list A
\* whose ids are pairwise distinct; for any A the result has pairwise distinct
\* ids, one attachment of A for each id of A.
C17_MergeDistinctAttachmentsWithItself ==
  (call.fn = "mergeAttachments" /\ call.existing = call.incoming)
    => /\ DistinctIds(call.existing) => returned = call.existing
       /\ DistinctIds(returned)
       /\ {returned[i].id : i \in 1..Len(returned)}
            = {call.existing[i].id : i \in 1..Len(call.existing)}
       /\ \A i \in 1..Len(returned) :
            \E j \in 1..Len(call.existing) : returned[i] = call.existing[j]

\* a list of two attachments with different ids was merged with itself and
\* came back as it was
C17_Witness ==
  /\ call.fn = "mergeAttachments" /\ call.existing = call.incoming
  /\ Len(call.existing) = 2 /\ DistinctIds(call.existing)
  /\ returned = call.existing

\* the closed records in ascending order of close time, a missing close time
\* first and records of equal close time in the order of the input
ByCloseTime(entries) ==
  LET closed == SelectSeq(entries, IsClosed)
      Key(i) == IF closed[i].closed_at = Null THEN 0 ELSE closed[i].closed_at[1]
      Place(i) ==
        1 + Cardinality({j \in 1..Len(closed) :
                           Key(j) < Key(i) \/ (Key(j) = Key(i) /\ j < i)})
  IN [p \in 1..Len(closed) |-> closed[CHOOSE i \in 1..Len(closed) : Place(i) = p]]

\* a win: the currency pnl above zero when there is one, else the percent pnl
\* above zero
Wins(t) ==
  \/ t.pnl_usd # Null /\ t.pnl_usd[1] > 0
  \/ t.pnl_usd = Null /\ t.pnl_pct # Null /\ t.pnl_pct[1] > 0

\* the lengths of the runs of wins in a list, and of those at its end
RunLengths(order) ==
  {n \in 0..Len(order) : \E i \in 1..(Len(order) - n + 1) :
                           \A k \in i..(i + n - 1) : Wins(order[k])}

EndRunLengths(order) ==
  {n \in 0..Len(order) : \A k \in (Len(order) - n + 1)..Len(order) : Wins(order[k])}

Greatest(S) == CHOOSE n \in S : \A m \in S : m <= n

\* C20: longestWinStreak is the length of the longest run of consecutive wins
\* among the closed records in ascending order of close time (a missing close
\* time first), currentWinStreak the length of the run of wins at the end of
\* that order, so currentWinStreak <= longestWinStreak <= the number of winning
\* closed records; closed pnl +100, -50, +75 in that order give 1 and 1.
C20_WinStreaks ==
  call.fn = "calculateAnalytics"
    => LET order == ByCloseTime(call.entries)
           wins == Cardinality({i \in 1..Len(order) : Wins(order[i])})
       IN /\ returned.longestWinStreak = Greatest(RunLengths(order))
          /\ returned.currentWinStreak = Greatest(EndRunLengths(order))
          /\ returned.currentWinStreak <= returned.longestWinStreak
          /\ returned.longestWinStreak <= wins
          /\ [i \in 1..Len(order) |-> order[i].pnl_usd] = <<(<<100>>), <<-50>>, <<75>> >>
               => returned.longestWinStreak = 1 /\ returned.currentWinStreak = 1

\* closed records with pnl +75, -50, +100, the last without a close time and
\* the first closed last, were analysed: in close-time order they are a win, a
\* loss and a win
C20_Witness ==
  /\ call.fn = "calculateAnalytics"
  /\ call.entries = <<Entry("closed", <<2>>, <<75>>, Null),
                      Entry("closed", <<1>>, <<-50>>, Null),
                      Entry("closed", Null, <<100>>, Null)>>
  /\ returned.longestWinStreak = 1 /\ returned.currentWinStreak = 1

\* whether the corpus of a record holds one of the tokens
HoldsToken(trade, tokens) ==
  \E k \in 1..Len(tokens) : Occurrences(buildSearchCorpus(trade), tokens[k]) > 0

\* C13: for a query with at least one token, search returns no record whose
\* corpus holds none of the query's tokens; when no candidate's corpus holds
\* a token, search returns the empty list and the narrative is the
\* empty-result message.
C13_SearchReturnsOnlyMatches ==
  (call.fn = "searchTrades" /\ buildSearchTokens(call.query) # <<>>)
    => LET tokens == buildSearchTokens(call.query)
           candidates == listTrades(call.store, call.filter,
                                    ListOptions("updatedAt", "desc", Null))
       IN /\ \A i \in 1..Len(returned) : HoldsToken(returned[i], tokens)
          /\ (\A i \in 1..Len(candidates) : ~HoldsToken(candidates[i], tokens))
               => /\ returned = <<>>
                  /\ buildSearchAnswer(call.query, returned).kind = "not_found"

\* upsertTrade for each record of a list, one after the other
RECURSIVE UpsertAll(_, _)
UpsertAll(store, list) ==
  IF list = <<>> THEN store ELSE UpsertAll(upsertTrade(store, Head(list)), Tail(list))

\* the orders in which the records of a list can be taken
Orders(list) ==
  {order \in [1..Len(list) -> 1..Len(list)] :
     \A i, j \in 1..Len(list) : order[i] = order[j] => i = j}

\* C14: upsert is a replace by id: upserting the records that listTrades
\* returns for the empty filter back into the store, in any order, leaves the
\* number of stored records as it was; after any upsert exactly one stored
\* record has the upserted id, and it is the first of the store.
C14_UpsertReplacesById ==
  call.fn = "upsertTrade"
    => /\ \A order \in Orders(call.store) :
            LET listed == listTrades(call.store, NoFilter,
                                     ListOptions("createdAt", "desc", Null))
            IN Len(UpsertAll(call.store, [i \in 1..Len(listed) |-> listed[order[i]]]))
                 = Len(call.store)
       /\ Len(Stored(returned, call.trade.trade_id)) = 1
       /\ returned[1] = call.trade
       /\ Stored(call.store, call.trade.trade_id) # <<>> => Len(returned) = Len(call.store)

\* a record of two was upserted again with a new ticker: it replaced the
\* stored one, moved to the front and the store still holds two records
C14_Witness ==
  /\ call.fn = "upsertTrade"
  /\ Len(call.store) = 2
  /\ call.store[2].trade_id = call.trade.trade_id
  /\ call.store[2] # call.trade
  /\ returned = <<call.trade, call.store[1]>>

\* the positions of the closed records of a list that carry a pnl score
Scored(entries) ==
  {i \in 1..Len(entries) :
     entries[i].status = "closed"
       /\ (entries[i].pnl_usd # Null \/ entries[i].pnl_pct # Null)}

\* the pnl score of a scored record: the currency pnl if set, else the percent
ScoreAt(entries, i) ==
  IF entries[i].pnl_usd # Null THEN entries[i].pnl_usd[1] ELSE entries[i].pnl_pct[1]

FirstMaximum(entries) ==
  CHOOSE i \in Scored(entries) :
    \A j \in Scored(entries) :
      /\ ScoreAt(entries, j) <= ScoreAt(entries, i)
      /\ ScoreAt(entries, j) = ScoreAt(entries, i) => i <= j

FirstMinimum(entries) ==
  CHOOSE i \in Scored(entries) :
    \A j \in Scored(entries) :
      /\ ScoreAt(entries, j) >= ScoreAt(entries, i)
      /\ ScoreAt(entries, j) = ScoreAt(entries, i) => i <= j

\* C21: bestTrade (worstTrade) is the first closed record, in input order,
\* whose pnl score (currency pnl if set, else percent pnl) is the maximum
\* (minimum) over the closed records, and a closed record with neither pnl
\* field set is never returned as bestTrade or worstTrade.
C21_BestAndWorstTrade ==
  call.fn = "calculateAnalytics"
    => /\ Scored(call.entries) # {}
            => /\ returned.bestTrade = <<FirstMaximum(call.entries)>>
               /\ returned.worstTrade = <<FirstMinimum(call.entries)>>
       /\ returned.bestTrade # Null => returned.bestTrade[1] \in Scored(call.entries)
       /\ returned.worstTrade # Null => returned.worstTrade[1] \in Scored(call.entries)

\* the words that name a trade kind
TradeKindWords ==
  {"long", "short", "shorted", "shorting", "call", "calls", "put", "puts"}

\* C22: on the update path a field about which the draft carries no
\* information keeps its stored value: on the heuristic path a note without a
\* trade-kind keyword leaves the trade kind of the record as it was, and a note
\* without a closing keyword leaves its status, and the close time of a closed
\* record, as they were.
C22_UpdateKeepsWhatTheNoteLeavesOut ==
  [][\A r \in DOMAIN reqs :
       (Answers(r) /\ ~apiKey /\ reqs'[r].result.kind = "ok"
          /\ reqs'[r].result.action = "update")
         => LET before == Stored(trades, reqs'[r].result.trade_id)
                after == Stored(trades', reqs'[r].result.trade_id)
            IN /\ Len(before) = 1 /\ Len(after) = 1
               /\ ~MatchesAny(reqs'[r].note, TradeKindWords, {})
                    => after[1].trade_type = before[1].trade_type
               /\ ~MatchesAny(reqs'[r].note, ClosingWords, ClosingPhrases)
                    => /\ after[1].status = before[1].status
                       /\ before[1].status = "closed"
                            => after[1].closed_at = before[1].closed_at]_vars

\* the positions in a store of the records a filter on the status admits
Admitted(store, filter) ==
  {i \in 1..Len(store) :
     filter.status = Undefined \/ ToLowerCase(store[i].status) = ToLowerCase(filter.status)}

\* the records of a store at the given positions, in the order of a search:
\* score descending, then last update descending, then the order of the
\* candidate list, which for equal last updates is the order of the store
SearchOrder(store, positions, tokens) ==
  LET Before(i, j) ==
        \/ Score(store[i], tokens) > Score(store[j], tokens)
        \/ /\ Score(store[i], tokens) = Score(store[j], tokens)
           /\ \/ store[i].updatedAt > store[j].updatedAt
              \/ store[i].updatedAt = store[j].updatedAt /\ i < j
      Place(i) == 1 + Cardinality({j \in positions : Before(j, i)})
  IN [p \in 1..Cardinality(positions) |->
        store[CHOOSE i \in positions : Place(i) = p]]

\* C23: the list returned by search is ordered by score descending, among
\* equal scores by last-update timestamp descending, among records equal in
\* both in the relative order of the candidate list, and it is the first
\* `limit` elements of that order over exactly the records that match the
\* filter.
C23_SearchOrder ==
  call.fn = "searchTrades"
    => LET order == SearchOrder(call.store, Admitted(call.store, call.filter),
                                buildSearchTokens(call.query))
       IN returned = SubSeq(order, 1, IF Len(order) < call.limit THEN Len(order)
                                      ELSE call.limit)

\* the record updated first was last among the candidates, scored higher than
\* the other and came back first
C23_Witness ==
  /\ call.fn = "searchTrades" /\ call.store = <<SoldTsla, SeedTrade>>
  /\ call.query = <<"AAPL">> /\ call.filter = NoFilter /\ call.limit = SearchLimit
  /\ returned = <<SeedTrade, SoldTsla>>

\* the records of a store at the given positions in the order listTrades is
\* to give them: by the sort key, ascending or descending, records of equal
\* key in the order of the store
ListOrder(store, positions, options) ==
  LET key == IF options.sortBy = "updatedAt" THEN "updatedAt" ELSE "createdAt"
      Before(i, j) ==
        \/ options.direction = "asc" /\ store[i][key] < store[j][key]
        \/ options.direction # "asc" /\ store[i][key] > store[j][key]
        \/ store[i][key] = store[j][key] /\ i < j
      Place(i) == 1 + Cardinality({j \in positions : Before(j, i)})
  IN [p \in 1..Cardinality(positions) |->
        store[CHOOSE i \in positions : Place(i) = p]]

\* C24: whenever a limit L >= 0 is given to listTrades, 0 included, the
\* result is exactly the first L records of the filtered, sorted list, so it
\* never has more than L records; without a limit the whole filtered, sorted
\* list is returned.
C24_ListLimit ==
  call.fn = "listTrades"
    => LET whole == ListOrder(call.store, Admitted(call.store, call.filter),
                              call.options)
           limit == call.options.limit
       IN IF limit = Null THEN returned = whole
          ELSE /\ Len(returned) <= limit[1]
               /\ returned = SubSeq(whole, 1, IF Len(whole) < limit[1] THEN Len(whole)
                                              ELSE limit[1])

\* a word written in upper case, of 2 to 5 letters, outside the exclusion set
UpperCaseTicker(w) ==
  w = ToUpperCase(w) /\ IsUpper2to5(w) /\ w \notin FALLBACK_TICKER_EXCLUSIONS

\* the least member of a non-empty set of positions
FirstOf(positions) == CHOOSE i \in positions : \A j \in positions : i <= j

\* C25: heuristic ticker detection returns the first dollar-sign-prefixed
\* token if there is one; otherwise it returns the first token that is written
\* in upper case in the note, has 2 to 5 letters and is not in the exclusion
\* set, never a lower-case or mixed-case word, and undefined when the note
\* has no such token.
C25_TickerIsWrittenInUpperCase ==
  call.fn = "detectTickerFromNote"
    => LET words == Words(call.note)
           dollars == {i \in 1..Len(words) : DollarSymbol(words[i]) # Undefined}
           uppers == {i \in 1..Len(words) : UpperCaseTicker(words[i])}
       IN IF dollars # {}
          THEN returned = ToUpperCase(DollarSymbol(words[FirstOf(dollars)]))
          ELSE IF uppers # {} THEN returned = words[FirstOf(uppers)]
          ELSE returned = Undefined

\* an empty or missing ticker: null, undefined, the empty string, whitespace
BlankTicker(value) == value \in {Undefined, NullStr, "", " "}

\* C26: sanitizeTicker returns its input trimmed and upper-cased, and
\* "UNKNOWN" for every empty or missing input: null, undefined, the empty
\* string and a string of whitespace only; so no record built by the create
\* path has an empty ticker.
C26_NoEmptyTicker ==
  /\ call.fn = "sanitizeTicker"
       => returned = IF BlankTicker(call.value) THEN "UNKNOWN"
                     ELSE ToUpperCase(TrimAtom(call.value))
  /\ call.fn = "newTrade" => returned.ticker # ""

\* the response of the extraction capability with one unknown key
UnknownKeyAt(place) ==
  [kind |-> "json",
   body |-> IF place = "top" THEN [NoBody EXCEPT !.extra = TRUE]
            ELSE [NoBody EXCEPT !.tradeExtra = TRUE]]

\* C27: draft validation treats an unknown field the same way wherever it
\* sits: for a request that awaits its extraction, a response with an unknown
\* key at the top level of the draft and the same response with the unknown key
\* inside the trade payload are both rejected (and the heuristic draft is
\* used) or both accepted.
C27_UniformUnknownFieldPolicy ==
  \A r \in DOMAIN reqs :
    reqs[r].pc = "extract"
      => Extract(reqs[r], UnknownKeyAt("top"), trades, uuid, clock, backend).req.llm
           = Extract(reqs[r], UnknownKeyAt("trade"), trades, uuid, clock,
                     backend).req.llm


-----------------------------------------------------------------------------
(* A request that falls back to the heuristic while another request closes  *)
(* the record it goes for, or the record is deleted                         *)

RaceNotes == {<<"holding", WS, "AAPL">>}

\* the extraction throws, opens a position, or closes t1
RaceResponses ==
  {[kind |-> "throws", body |-> NoBody],
   [kind |-> "json", body |-> NoBody],
   [kind |-> "json",
    body |-> LlmBody("update", "t1", Undefined, <<Null, "closed", Null>>)]}

\* collection.deleteOne({document_id}): the first match goes
RECURSIVE deleteOne(_, _)
deleteOne(store, tradeId) ==
  IF store = <<>> THEN <<>>
  ELSE IF Head(store).trade_id = tradeId THEN Tail(store)
  ELSE <<Head(store)>> \o deleteOne(Tail(store), tradeId)

\* DELETE /api/trades/[id]: answers ok with a collection; without one the
\* call on the null collection throws and nothing is deleted
Delete ==
  /\ backend = "collection"
  /\ \E tradeId \in StoredIds : trades' = deleteOne(trades, tradeId)
  /\ UNCHANGED libVars
  /\ UNCHANGED <<backend, apiKey, clock, uuid, served, reqs, putResult>>

NextRace ==
  \/ \E r \in ConcSlots : PostBegin(r, RaceNotes, {<<>>}, {<<>>})
  \/ \E r \in ConcSlots : PostSnapshot(r)
  \/ \E r \in ConcSlots : PostExtract(r, RaceResponses)
  \/ \E r \in ConcSlots : PostLookup(r)
  \/ \E r \in ConcSlots : PostWrite(r)
  \/ \E r \in ConcSlots : PostInsert(r)
  \/ Delete
  \/ Tick

SpecRace == InitConc /\ [][NextRace]_vars

\* request r was answered from the heuristic draft, no identifier forced
HeuristicAnswer(r) ==
  /\ Answers(r)
  /\ reqs'[r].tradeId = Undefined
  /\ reqs'[r].llm \in {"absent", "throws", "not_json", "schema"}

\* C28: a heuristically inferred update only modifies a record that is open
\* at the moment the merge is written, and never ends in 'not found': in the
\* step in which a request answered from the heuristic draft writes its
\* update, the record the merge goes to is stored and has status 'open',
\* whatever other requests did between its snapshot and its merge.
C28_HeuristicUpdatesOnlyOpenRecords ==
  [][\A r \in DOMAIN reqs :
       HeuristicAnswer(r)
         => /\ reqs'[r].result.kind # "not_found"
            /\ (reqs'[r].result.kind = "ok" /\ reqs'[r].result.action = "update")
                 => /\ Stored(trades, reqs'[r].result.trade_id) # <<>>
                    /\ Stored(trades, reqs'[r].result.trade_id)[1].status = "open"]_vars


\* the response the prompt prescribes for a new position: action create, a
\* null target, null for the numbers the note does not give
PromptShapedResponse ==
  [kind |-> "json", body |-> [NoBody EXCEPT !.target_trade_id = NullStr]]

\* C29: a response in the shape the prompt prescribes (action create with
\* target_trade_id null, missing fields null) is accepted by the schema and
\* is the draft that is applied: a request that awaits its extraction and gets
\* this response goes on with the response's draft, not the heuristic one.
C29_PromptShapedDraftIsApplied ==
  \A r \in DOMAIN reqs :
    reqs[r].pc = "extract"
      => LET next == Extract(reqs[r], PromptShapedResponse, trades, uuid, clock,
                             backend).req
         IN /\ next.llm = "ok"
            /\ next.pc = "done" /\ next.result.kind = "ok"
                 => next.result.reasoning = LlmReasoning("create")


-----------------------------------------------------------------------------
(* The memory store under a sequence of upsertTrade and deleteTrade calls   *)

\* a delete that reports a store that has not grown
deleteTradeNotLonger(store, tradeId) ==
  [trades |-> RecordsBut(store, tradeId),
   deleted |-> Len(RecordsBut(store, tradeId)) <= Len(store)]

\* the store after the call and the boolean returned
deleteTrade(store, tradeId) ==
  [trades |-> RecordsBut(store, tradeId),
   deleted |-> Len(RecordsBut(store, tradeId)) < Len(store)]

InitStore ==
  /\ backend = "memory"
  /\ apiKey = FALSE
  /\ trades \in Stores
  /\ clock = 1
  /\ uuid = 0
  /\ served = 0
  /\ reqs = [r \in {1} |-> IdleReq]
  /\ putResult = [kind |-> "none", embedding |-> "not_called"]
  /\ call = NoCall
  /\ returned = NoCall
  /\ objects = <<>>
  /\ memory = <<>>
  /\ handles = {}

UpsertInputs ==
  {SeedTrade, SoldTsla, HeldAapl, [SeedTrade EXCEPT !.ticker = "MSFT"],
   [HeldAapl EXCEPT !.status = "closed"]}

StoreUpsertTrade ==
  \E trade \in UpsertInputs :
    /\ trades' = upsertTrade(trades, trade)
    /\ call' = [fn |-> "upsertTrade", trade |-> trade]
    /\ returned' = trade
    /\ UNCHANGED <<objects, memory, handles>>
    /\ UNCHANGED <<backend, apiKey, clock, uuid, served, reqs, putResult>>

StoreDeleteTrade ==
  \E tradeId \in {"t1", "t2", "t3", "ghost"} :
    /\ trades' = deleteTrade(trades, tradeId).trades
    /\ call' = [fn |-> "deleteTrade", tradeId |-> tradeId]
    /\ returned' = deleteTrade(trades, tradeId).deleted
    /\ UNCHANGED <<objects, memory, handles>>
    /\ UNCHANGED <<backend, apiKey, clock, uuid, served, reqs, putResult>>

NextStore ==
  \/ StoreUpsertTrade
  \/ StoreDeleteTrade

SpecStore == InitStore /\ [][NextStore]_vars

\* no trade identifier is stored twice
DistinctTradeIds(store) ==
  \A i, j \in 1..Len(store) : store[i].trade_id = store[j].trade_id => i = j

\* the identifier the call just made was about
CalledId == IF call.fn = "deleteTrade" THEN call.tradeId ELSE call.trade.trade_id

\* C30: starting from a store of pairwise distinct ids, every upsertTrade and
\* deleteTrade leaves the ids pairwise distinct and leaves the records of every
\* other id as they were and in the order they had; deleteTrade returns true
\* exactly when a record of that id was stored, and afterwards getTradeById
\* of that id returns null.
C30_StoreOperationsKeepIdsDistinct ==
  [][/\ DistinctTradeIds(trades')
     /\ RecordsBut(trades', CalledId') = RecordsBut(trades, CalledId')
     /\ call'.fn = "deleteTrade"
          => /\ returned' = (Stored(trades, CalledId') # <<>>)
             /\ getTradeById(trades', CalledId') = <<>>]_vars

\* t1 was deleted from a store that held it and t2: the call returned true
\* and t2 is what is left
C30_Witness ==
  /\ call = [fn |-> "deleteTrade", tradeId |-> "t1"]
  /\ returned = TRUE
  /\ trades = <<SoldTsla>>

====
